---- MODULE Spec2Model ----
(***************************************************************************)
(* Model of the survey report generator (src/data_processor.py) and of the *)
(* upload and category selection of its application (src/app.py).         *)
(*                                                                         *)
(* Texts are sequences of characters, one token for each character of the  *)
(* source: a hiragana is its reading in lower case ("so"), a katakana its  *)
(* reading in upper case ("SU"), a kanji a capitalised reading ("Omo"), a  *)
(* Latin letter the letter after an underscore ("_I"), a digit or an ASCII *)
(* sign itself (the middle dot is ".", the ideographic comma ",").         *)
(* So "so","u","Omo","u" is the four-character phrase of                   *)
(* src/data_processor.py:22.  Python None is the empty tuple <<>> and a    *)
(* present number n is <<n>>.                                              *)
(***************************************************************************)
EXTENDS Integers, Sequences, FiniteSets, TLC

VARIABLES
    pc,                 \* position of the running function
    value,              \* convert_to_score: the cell handed in
    score,              \* convert_to_score: the value returned
    df,                 \* the response table: a sequence of rows
    question_cols,      \* the ordered question headers
    stats,              \* calculate_statistics: the rows returned
    overall_average,    \* get_overall_average: the value returned
    template_row6,      \* row 6 of the template sheet, columns C..
    template_questions, \* write_to_template: the (column, text) slots
    slot_i,             \* write_to_template: index of the slot being mapped
    question_mapping,   \* write_to_template: template column -> data index
    match_details,      \* write_to_template: template column -> match type
    match_info,         \* write_to_template: the diagnostics returned
    subject_mapping,    \* write_to_template: category -> list of labels
    subject_i,          \* write_to_template: index of the category in work
    ws,                 \* the cells written, (sheet, row, column) -> value
    rows_written,       \* the data rows written and the subset of each
    created_sheets,     \* write_to_template: the detail sheets created
    placeholders,       \* write_to_template: the (key, value) substitutions
    metadata,           \* load_and_process_csv: the roles of the headers
    mapping_given,      \* write_to_template: subject_mapping is not None
    free_text_col,      \* extract_free_comments: the column name handed in
    exclude_empty,      \* extract_free_comments: the flag handed in
    comments,           \* extract_free_comments: the list returned
    session_state,      \* the app: widget key -> value kept across reruns
    uploaded_files,     \* the app: the tables of the uploaded files
    all_metadata        \* the app: the metadata of each uploaded file

vars == <<pc, value, score, df, question_cols, stats, overall_average,
          template_row6, template_questions, slot_i, question_mapping,
          match_details, match_info, subject_mapping, subject_i, ws,
          rows_written, created_sheets, placeholders, metadata,
                   mapping_given, free_text_col, exclude_empty, comments,
                   session_state, uploaded_files, all_metadata>>

----------------------------------------------------------------------------
\* Bounds of the model.

MaxPad == 1         \* whitespace characters added on each side of a text
MaxRows == 2        \* respondent rows of a generated table
MaxSlots == 2       \* filled cells of the template's question row
MaxData == 2        \* data questions following the padding questions

----------------------------------------------------------------------------
\* Python values.

None == <<>>
Some(n) == <<n>>

\* A cell of the table: a text, or a missing value (None, NaN, pd.NA).
StrCell(s) == [kind |-> "str", s |-> s]
NoneCell == [kind |-> "None", s |-> <<>>]
NaNCell == [kind |-> "NaN", s |-> <<>>]

\* pd.isna(value)
IsNa(v) == v.kind \in {"None", "NaN"}

\* str(value) of a cell that is not missing
Str(v) == v.s

WhiteSpace == {" ", "\t"}

RECURSIVE LStrip(_)
LStrip(s) ==
    IF s # <<>> /\ Head(s) \in WhiteSpace THEN LStrip(Tail(s)) ELSE s

RECURSIVE RStrip(_)
RStrip(s) ==
    IF s # <<>> /\ s[Len(s)] \in WhiteSpace
    THEN RStrip(SubSeq(s, 1, Len(s) - 1))
    ELSE s

\* A plausible slip: only the leading whitespace is removed.
StripLeadingOnly(s) == LStrip(s)

\* str.strip()
Strip(s) == RStrip(LStrip(s))

\* a in b, for Python strings
IsSubstring(a, b) ==
    \E i \in 0..(Len(b) - Len(a)) : SubSeq(b, i + 1, i + Len(a)) = a

----------------------------------------------------------------------------
\* The canonical phrase table.

SouOmou == <<"so", "u", "Omo", "u">>
SouOmowanai == <<"so", "u", "Omo", "wa", "na", "i">>
Atehamaru == <<"Ate", "te", "ha", "ma", "ru">>
Atehamaranai == <<"Ate", "te", "ha", "ma", "ra", "na", "i">>
Totemo == <<"to", "te", "mo">>
Dochiraka == <<"do", "chi", "ra", "ka", "to", "i", "e", "ba">>
Amari == <<"a", "ma", "ri">>
Mattaku == <<"Zen", "ku">>

SCORE_MAPPING ==
    (Totemo \o SouOmou :> 4) @@
    (Atehamaru :> 4) @@
    (Totemo \o Atehamaru :> 4) @@
    (<<"Tsuyo", "ku">> \o SouOmou :> 4) @@
    (SouOmou :> 3) @@
    (Dochiraka \o SouOmou :> 3) @@
    (<<"ya", "ya">> \o Atehamaru :> 3) @@
    (Dochiraka \o Atehamaru :> 3) @@
    (Amari \o SouOmowanai :> 2) @@
    (Dochiraka \o SouOmowanai :> 2) @@
    (Amari \o Atehamaranai :> 2) @@
    (Dochiraka \o Atehamaranai :> 2) @@
    (<<"Omo", "wa", "na", "i">> :> 1) @@
    (SouOmowanai :> 1) @@
    (Atehamaranai :> 1) @@
    (Mattaku \o Atehamaranai :> 1) @@
    (Mattaku \o SouOmowanai :> 1)

\* SCORE_MAPPING.get(value_str, None)
MappingGet(s) ==
    IF s \in DOMAIN SCORE_MAPPING THEN Some(SCORE_MAPPING[s]) ELSE None

\* A plausible slip: the table is searched for a phrase the text contains.
MappingGetContained(s) ==
    IF \E p \in DOMAIN SCORE_MAPPING : IsSubstring(p, s)
    THEN LET p == CHOOSE q \in DOMAIN SCORE_MAPPING : IsSubstring(q, s)
         IN  Some(SCORE_MAPPING[p])
    ELSE None

\* A plausible slip: the text is looked up without trimming its end.
ConvertToScoreLeading(v) ==
    IF IsNa(v) THEN None ELSE MappingGet(StripLeadingOnly(Str(v)))

\* A plausible slip: a text containing a phrase gets the phrase's level.
ConvertToScoreContained(v) ==
    IF IsNa(v) THEN None ELSE MappingGetContained(Strip(Str(v)))

convert_to_score(v) ==
    IF IsNa(v) THEN None ELSE MappingGet(Strip(Str(v)))

----------------------------------------------------------------------------
\* Inputs of the Score Normalizer.

Pads == UNION {[1..n -> WhiteSpace] : n \in 0..MaxPad}

\* Texts that are no key of the table: empty, unrelated, a fragment of a
\* phrase, a phrase with a suffix, a phrase with whitespace inside.
OtherTexts ==
    { <<>>,
      <<"Mu", "Kan", "Kei">>,
      <<"Omo", "u">>,
      SouOmou \o <<"yo">>,
      <<"so", "u", " ", "Omo", "u">>,
      <<"4">> }

ScoreInputs ==
    {NoneCell, NaNCell} \cup
    {StrCell(l \o t \o r) :
        l \in Pads, r \in Pads, t \in DOMAIN SCORE_MAPPING \cup OtherTexts}

----------------------------------------------------------------------------
\* Rational numbers <<numerator, denominator>>, denominator > 0: the exact
\* values of the means the code holds as floats.

Rat(n, d) == <<n, d>>
RatEq(a, b) == a[1] * b[2] = b[1] * a[2]
RatAdd(a, b) == <<a[1] * b[2] + b[1] * a[2], a[2] * b[2]>>
RatDiv(a, n) == <<a[1], a[2] * n>>

RECURSIVE RatSum(_)
RatSum(rs) == IF rs = <<>> THEN Rat(0, 1) ELSE RatAdd(Head(rs), RatSum(Tail(rs)))

\* np.mean of a non-empty list
Mean(rs) == RatDiv(RatSum(rs), Len(rs))

----------------------------------------------------------------------------
\* The response table: its ordered headers and its rows, a row a function
\* from header to cell.
DataFrame(columns, rows) == [columns |-> columns, rows |-> rows]

\* len(df)
NRows(d) == Len(d.rows)

\* df[question], the rows' cells under the header
Column(d, q) == [i \in 1..NRows(d) |-> d.rows[i][q]]

\* df[question].apply(convert_to_score)
Scores(d, q) == [i \in 1..NRows(d) |-> convert_to_score(Column(d, q)[i])]

\* scores.notna().sum()
ValidCount(scores) == Cardinality({i \in DOMAIN scores : scores[i] # None})

\* scores.value_counts().get(k, 0)
CountOf(scores, k) == Cardinality({i \in DOMAIN scores : scores[i] = Some(k)})

\* scores.dropna().tolist()
RECURSIVE DropNa(_)
DropNa(scores) ==
    IF scores = <<>> THEN <<>>
    ELSE IF Head(scores) = None THEN DropNa(Tail(scores))
    ELSE <<Head(scores)[1]>> \o DropNa(Tail(scores))

RECURSIVE SumSeq(_)
SumSeq(xs) == IF xs = <<>> THEN 0 ELSE Head(xs) + SumSeq(Tail(xs))

\* scores.mean(), of a series with a valid score
ScoresMean(scores) == Rat(SumSeq(DropNa(scores)), ValidCount(scores))

StatRow(d, q) ==
    LET scores == Scores(d, q) IN
    [question |-> q,
     mean |-> ScoresMean(scores),
     valid_count |-> ValidCount(scores),
     count_4 |-> CountOf(scores, 4),
     count_3 |-> CountOf(scores, 3),
     count_2 |-> CountOf(scores, 2),
     count_1 |-> CountOf(scores, 1)]

\* A plausible slip: a question without a valid score keeps its row (the
\* mean of no score, NaN, is written 0/1 here).
RECURSIVE CalculateStatisticsKeepAll(_, _)
CalculateStatisticsKeepAll(d, qs) ==
    IF qs = <<>> THEN <<>>
    ELSE IF ValidCount(Scores(d, Head(qs))) = 0
         THEN <<[StatRow(d, Head(qs)) EXCEPT !.mean = Rat(0, 1)]>>
              \o CalculateStatisticsKeepAll(d, Tail(qs))
         ELSE <<StatRow(d, Head(qs))>> \o CalculateStatisticsKeepAll(d, Tail(qs))

\* A plausible slip: the mean divides by the number of rows.
RECURSIVE CalculateStatisticsAllRows(_, _)
CalculateStatisticsAllRows(d, qs) ==
    IF qs = <<>> THEN <<>>
    ELSE IF ValidCount(Scores(d, Head(qs))) = 0
         THEN CalculateStatisticsAllRows(d, Tail(qs))
         ELSE <<[StatRow(d, Head(qs)) EXCEPT
                    !.mean = Rat(SumSeq(DropNa(Scores(d, Head(qs)))), NRows(d))]>>
              \o CalculateStatisticsAllRows(d, Tail(qs))

RECURSIVE calculate_statistics(_, _)
calculate_statistics(d, qs) ==
    IF qs = <<>> THEN <<>>
    ELSE IF ValidCount(Scores(d, Head(qs))) = 0
         THEN calculate_statistics(d, Tail(qs))
         ELSE <<StatRow(d, Head(qs))>> \o calculate_statistics(d, Tail(qs))

\* all_scores of get_overall_average
RECURSIVE AllScores(_, _)
AllScores(d, qs) ==
    IF qs = <<>> THEN <<>>
    ELSE DropNa(Scores(d, Head(qs))) \o AllScores(d, Tail(qs))

\* the 'mean' column of a statistics frame, as a list
MeanValues(st) == [i \in 1..Len(st) |-> st[i].mean]

\* A plausible slip: the mean of the per-question means.
GetOverallAverageOfMeans(d, qs) ==
    LET st == calculate_statistics(d, qs) IN
    IF st = <<>> THEN Rat(0, 1) ELSE Mean(MeanValues(st))

get_overall_average(d, qs) ==
    LET all_scores == AllScores(d, qs) IN
    IF Len(all_scores) = 0 THEN Rat(0, 1)
    ELSE Rat(SumSeq(all_scores), Len(all_scores))

----------------------------------------------------------------------------
\* Inputs of the Statistics Aggregator.

\* the question headers of the test table, src/test_data_processor.py:25-26
QRikai == <<"Ju", "Gyou", "no", "Nai", "You", "wo", "Ri", "Kai",
            "de", "ki", "te", "i", "ru">>
QSpeed == <<"Ju", "Gyou", "no", "SU", "PI", "-", "DO", "ha",
            "Teki", "Setsu", "de", "a", "ru">>

Very == StrCell(Totemo \o SouOmou)
Agree == StrCell(SouOmou)
Hardly == StrCell(Amari \o SouOmowanai)
RatherNot == StrCell(Dochiraka \o SouOmowanai)
Disagree == StrCell(<<"Omo", "wa", "na", "i">>)

\* one answer text of each level, and a missing answer
AnswerCells == {Very, Agree, Hardly, Disagree, NaNCell}

\* sample_df of src/test_data_processor.py:20-29, its question columns
sample_df ==
    DataFrame(<<QRikai, QSpeed>>,
        << (QRikai :> Very)     @@ (QSpeed :> Agree),
           (QRikai :> Agree)    @@ (QSpeed :> Agree),
           (QRikai :> Hardly)   @@ (QSpeed :> RatherNot),
           (QRikai :> Disagree) @@ (QSpeed :> NaNCell),
           (QRikai :> Very)     @@ (QSpeed :> Agree) >>)

Range(xs) == {xs[i] : i \in DOMAIN xs}

\* every table of at most n rows with the given headers and cells
Tables(columns, cells, n) ==
    {DataFrame(columns, rows) :
        rows \in UNION {[1..k -> [Range(columns) -> cells]] : k \in 0..n}}

\* every list of distinct elements of S
DistinctSeqs(S) ==
    {s \in UNION {[1..k -> S] : k \in 0..Cardinality(S)} :
        \A i, j \in DOMAIN s : i # j => s[i] # s[j]}

StatTables ==
    Tables(<<QRikai, QSpeed>>, AnswerCells, MaxRows) \cup {sample_df}

----------------------------------------------------------------------------
\* Score Normalizer: one call of convert_to_score.

InitScore ==
    /\ pc = "call"
    /\ value \in ScoreInputs
    /\ score = None
    /\ df = DataFrame(<<>>, <<>>)
    /\ question_cols = <<>>
    /\ stats = <<>>
    /\ overall_average = None
    /\ template_row6 = <<>>
    /\ template_questions = <<>>
    /\ slot_i = 0
    /\ question_mapping = <<>>
    /\ match_details = <<>>
    /\ match_info = <<>>
    /\ subject_mapping = <<>>
    /\ subject_i = 0
    /\ ws = <<>>
    /\ rows_written = {}
    /\ created_sheets = <<>>
    /\ placeholders = None
    /\ metadata = <<>>
    /\ mapping_given = FALSE
    /\ free_text_col = <<>>
    /\ exclude_empty = TRUE
    /\ comments = <<>>
    /\ session_state = <<>>
    /\ uploaded_files = <<>>
    /\ all_metadata = <<>>

ConvertToScore ==
    /\ pc = "call"
    /\ score' = convert_to_score(value)
    /\ pc' = "scored"
    /\ UNCHANGED <<value, df, question_cols, stats, overall_average,
                   template_row6, template_questions, slot_i,
                   question_mapping, match_details, match_info,
                   subject_mapping, subject_i, ws, rows_written,
                   created_sheets,
                   placeholders, metadata,
                   mapping_given, free_text_col, exclude_empty, comments,
                   session_state, uploaded_files, all_metadata>>

NextScore == ConvertToScore

SpecScore == InitScore /\ [][NextScore]_vars

----------------------------------------------------------------------------
\* Statistics Aggregator: calculate_statistics and get_overall_average on
\* one table and one question list.

InitStats ==
    /\ pc = "call"
    /\ df \in StatTables
    /\ question_cols \in DistinctSeqs({QRikai, QSpeed})
    /\ value = NoneCell
    /\ score = None
    /\ stats = <<>>
    /\ overall_average = None
    /\ template_row6 = <<>>
    /\ template_questions = <<>>
    /\ slot_i = 0
    /\ question_mapping = <<>>
    /\ match_details = <<>>
    /\ match_info = <<>>
    /\ subject_mapping = <<>>
    /\ subject_i = 0
    /\ ws = <<>>
    /\ rows_written = {}
    /\ created_sheets = <<>>
    /\ placeholders = None
    /\ metadata = <<>>
    /\ mapping_given = FALSE
    /\ free_text_col = <<>>
    /\ exclude_empty = TRUE
    /\ comments = <<>>
    /\ session_state = <<>>
    /\ uploaded_files = <<>>
    /\ all_metadata = <<>>

CalculateStatistics ==
    /\ pc = "call"
    /\ stats' = calculate_statistics(df, question_cols)
    /\ pc' = "stats"
    /\ UNCHANGED <<value, score, df, question_cols, overall_average,
                   template_row6, template_questions, slot_i,
                   question_mapping, match_details, match_info,
                   subject_mapping, subject_i, ws, rows_written,
                   created_sheets,
                   placeholders, metadata,
                   mapping_given, free_text_col, exclude_empty, comments,
                   session_state, uploaded_files, all_metadata>>

GetOverallAverage ==
    /\ pc = "stats"
    /\ overall_average' = get_overall_average(df, question_cols)
    /\ pc' = "averaged"
    /\ UNCHANGED <<value, score, df, question_cols, stats,
                   template_row6, template_questions, slot_i,
                   question_mapping, match_details, match_info,
                   subject_mapping, subject_i, ws, rows_written,
                   created_sheets,
                   placeholders, metadata,
                   mapping_given, free_text_col, exclude_empty, comments,
                   session_state, uploaded_files, all_metadata>>

NextStats == CalculateStatistics \/ GetOverallAverage

SpecStats == InitStats /\ [][NextStats]_vars

----------------------------------------------------------------------------
\* Template Sheet: the cells of the workbook and the placeholders of the
\* header texts.

LabelColumn == 1
PeriodColumn == 2
LastHeaderRow == 6
FirstDataRow == 7
LastDataRow == 16

\* the sheet of the template
OverviewSheet == <<"Oomune", "Kaname">>

\* the cells of a sheet
NumCell(h) == [kind |-> "num", n |-> h, s |-> <<>>]
IntCell(n) == [kind |-> "int", n |-> n, s |-> <<>>]
TextCell(t) == [kind |-> "str", n |-> 0, s |-> t]
NanCell == [kind |-> "nan", n |-> 0, s |-> <<>>]

\* 'cell.value and isinstance(cell.value, str)' of the cell k of sheet w
HasText(w, k) == k \in DOMAIN w /\ w[k].kind = "str" /\ w[k].s # <<>>

\* text.replace(old, new): the occurrences of old are found from the left
\* and do not overlap
RECURSIVE Replace(_, _, _)
Replace(text, old, new) ==
    IF Len(text) < Len(old) THEN text
    ELSE IF SubSeq(text, 1, Len(old)) = old
         THEN new \o Replace(SubSeq(text, Len(old) + 1, Len(text)), old, new)
         ELSE <<Head(text)>> \o Replace(Tail(text), old, new)

\* f'{{{key}}}'
Token(key) == <<"{">> \o key \o <<"}">>

\* the loop over placeholders.items(): one replace after the other, each
\* on the result of the one before
RECURSIVE ReplaceItems(_, _)
ReplaceItems(text, items) ==
    IF items = <<>> THEN text
    ELSE ReplaceItems(Replace(text, Token(Head(items)[1]), Head(items)[2]),
                      Tail(items))

\* the dict placeholders is the list of its (key, value) items, None and
\* the empty dict are both <<>>
replace_placeholders(text) ==
    IF placeholders # <<>> /\ text # <<>>
    THEN ReplaceItems(text, placeholders)
    ELSE text

\* rows 1 and 2 of a sheet, every column
InTitleRows(k, sheet) == k[1] = sheet /\ k[2] \in {1, 2}

\* column B of the data rows of the overview sheet
InPeriodCells(k) ==
    /\ k[1] = OverviewSheet
    /\ k[2] \in FirstDataRow..LastDataRow
    /\ k[3] = PeriodColumn

\* the texts of rows 1 and 2 of a sheet after the substitution
ReplaceTitleRows(w, sheet) ==
    [k \in DOMAIN w |->
        IF InTitleRows(k, sheet) /\ HasText(w, k)
        THEN TextCell(replace_placeholders(w[k].s))
        ELSE w[k]]

\* the texts of column B of the overview sheet after the substitution
ReplacePeriodCells(w) ==
    [k \in DOMAIN w |->
        IF InPeriodCells(k) /\ HasText(w, k)
        THEN TextCell(replace_placeholders(w[k].s))
        ELSE w[k]]

ReplaceOverview(w) == ReplacePeriodCells(ReplaceTitleRows(w, OverviewSheet))

----------------------------------------------------------------------------
\* Question Reconciler: the slot mapping of write_to_template.

FirstQuestionColumn == 3
LastQuestionColumn == 32
TemplateCapacity == 30

\* a Python dict as a function; d[k] = v on a dict without the key k
EmptyDict == <<>>
Put(d, k, v) == d @@ (k :> v)

\* 'if cell.value' of a template cell
Truthy(c) == c.kind = "str" /\ c.s # <<>>

\* template_questions: the (column, text) pairs of the filled cells of the
\* question row, columns C to AF; row6[i] is the cell of column i + 2
RECURSIVE SlotsFrom(_, _)
SlotsFrom(row6, i) ==
    IF i > Len(row6) \/ i + FirstQuestionColumn - 1 > LastQuestionColumn
    THEN <<>>
    ELSE (IF Truthy(row6[i])
          THEN << <<i + FirstQuestionColumn - 1, Str(row6[i])>> >>
          ELSE <<>>)
         \o SlotsFrom(row6, i + 1)

TemplateQuestions(row6) == SlotsFrom(row6, 1)

\* question_cols[30:] if len(question_cols) > 30 else []
ExcessQuestions(qs) ==
    IF Len(qs) > TemplateCapacity
    THEN SubSeq(qs, TemplateCapacity + 1, Len(qs))
    ELSE <<>>

\* position of the first data question equal to t, 0 when there is none
ExactPos(t, qs) ==
    IF \E i \in DOMAIN qs : qs[i] = t
    THEN CHOOSE i \in DOMAIN qs :
            qs[i] = t /\ \A j \in 1..(i - 1) : qs[j] # t
    ELSE 0

IsPartial(t, d) == IsSubstring(t, d) \/ IsSubstring(d, t)

\* position of the first data question that contains t or is contained in
\* t, 0 when there is none
PartialPos(t, qs) ==
    IF \E i \in DOMAIN qs : IsPartial(t, qs[i])
    THEN CHOOSE i \in DOMAIN qs :
            IsPartial(t, qs[i]) /\ \A j \in 1..(i - 1) : ~ IsPartial(t, qs[j])
    ELSE 0

NoMatch == [matched |-> FALSE, data_idx |-> 0, type |-> "", question |-> <<>>]
Match(pos, type, qs) ==
    [matched |-> TRUE, data_idx |-> pos - 1, type |-> type,
     question |-> qs[pos]]

\* A plausible slip: one scan that takes the first data question matching
\* exactly or partially.
MatchSlotOneScan(t, qs) ==
    LET p == PartialPos(t, qs) IN
    IF p = 0 THEN NoMatch
    ELSE IF qs[p] = t THEN Match(p, "exact", qs)
    ELSE IF IsSubstring(t, qs[p]) THEN Match(p, "template_in_data", qs)
    ELSE Match(p, "data_in_template", qs)

\* one pass of the loop over template_questions: the exact scan, then the
\* partial scan
MatchSlot(t, qs) ==
    LET e == ExactPos(t, qs)
        p == PartialPos(t, qs)
    IN  IF e # 0 THEN Match(e, "exact", qs)
        ELSE IF p = 0 THEN NoMatch
        ELSE IF IsSubstring(t, qs[p]) THEN Match(p, "template_in_data", qs)
        ELSE Match(p, "data_in_template", qs)

\* the template columns without an entry in the mapping, in template order
\* A plausible slip: every slot of the template is listed.
UnmappedEverySlot(tq, mapping) == tq

RECURSIVE Unmapped(_, _)
Unmapped(tq, mapping) ==
    IF tq = <<>> THEN <<>>
    ELSE (IF Head(tq)[1] \in DOMAIN mapping THEN <<>> ELSE <<Head(tq)>>)
         \o Unmapped(Tail(tq), mapping)

\* partial_match_details: one entry for each partial match, in the order
\* of the dict, which is the template order
RECURSIVE PartialDetails(_, _)
PartialDetails(tq, details) ==
    IF tq = <<>> THEN <<>>
    ELSE (IF Head(tq)[1] \in DOMAIN details
             /\ details[Head(tq)[1]][1] # "exact"
          THEN <<[column |-> Head(tq)[1],
                  match_type |-> details[Head(tq)[1]][1],
                  template_question |-> Head(tq)[2],
                  data_question |-> details[Head(tq)[1]][2]]>>
          ELSE <<>>)
         \o PartialDetails(Tail(tq), details)

\* the template is read, the diagnostics started, the placeholders of the
\* overview sheet replaced, the overall statistics computed
ReadTemplate ==
    /\ pc = "read"
    /\ template_questions' = TemplateQuestions(template_row6)
    /\ stats' = calculate_statistics(df, question_cols)
    /\ match_info' =
          [template_question_count |-> Len(TemplateQuestions(template_row6)),
           data_question_count |-> Len(question_cols),
           excess_questions |-> ExcessQuestions(question_cols)]
    /\ question_mapping' = EmptyDict
    /\ match_details' = EmptyDict
    /\ ws' = ReplaceOverview(ws)
    /\ slot_i' = 1
    /\ pc' = "map"
    /\ UNCHANGED <<value, score, df, question_cols, overall_average,
                   template_row6, subject_mapping, subject_i, rows_written,
                   created_sheets, placeholders, metadata,
                   mapping_given, free_text_col, exclude_empty, comments,
                   session_state, uploaded_files, all_metadata>>

\* one template slot is matched against the data questions
MapSlot ==
    /\ pc = "map"
    /\ slot_i <= Len(template_questions)
    /\ LET col == template_questions[slot_i][1]
           m == MatchSlot(template_questions[slot_i][2], question_cols)
       IN  IF m.matched
           THEN /\ question_mapping' = Put(question_mapping, col, m.data_idx)
                /\ match_details' =
                      Put(match_details, col, <<m.type, m.question>>)
           ELSE UNCHANGED <<question_mapping, match_details>>
    /\ slot_i' = slot_i + 1
    /\ UNCHANGED <<pc, value, score, df, question_cols, stats,
                   overall_average, template_row6, template_questions,
                   match_info, subject_mapping, subject_i, ws, rows_written,
                   created_sheets,
                   placeholders, metadata,
                   mapping_given, free_text_col, exclude_empty, comments,
                   session_state, uploaded_files, all_metadata>>

\* the diagnostics of the mapping
MatchInfo ==
    /\ pc = "map"
    /\ slot_i > Len(template_questions)
    /\ LET exact == Cardinality({c \in DOMAIN match_details :
                                    match_details[c][1] = "exact"})
       IN  match_info' =
              [template_question_count |-> match_info.template_question_count,
               data_question_count |-> match_info.data_question_count,
               excess_questions |-> match_info.excess_questions,
               total_matches |-> Cardinality(DOMAIN question_mapping),
               exact_matches |-> exact,
               partial_matches |-> Cardinality(DOMAIN match_details) - exact,
               unmapped_questions |->
                   Unmapped(template_questions, question_mapping),
               partial_match_details |->
                   PartialDetails(template_questions, match_details)]
    /\ pc' = "overall"
    /\ UNCHANGED <<value, score, df, question_cols, stats, overall_average,
                   template_row6, template_questions, slot_i,
                   question_mapping, match_details, subject_mapping,
                   subject_i, ws, rows_written, created_sheets,
                   placeholders, metadata,
                   mapping_given, free_text_col, exclude_empty, comments,
                   session_state, uploaded_files, all_metadata>>

----------------------------------------------------------------------------
\* Inputs of the Question Reconciler.

Seki == <<"Seki">>
Shusseki == <<"Shutsu", "Seki">>
SekiBan == <<"Seki", "Ban">>
ShussekiBangou == <<"Shutsu", "Seki", "Ban", "Gou">>

\* question texts: one inside the other, and one unrelated to the rest
QuestionTexts == {Seki, Shusseki, SekiBan, ShussekiBangou, QRikai}

Digit == <<"0", "1", "2", "3", "4", "5", "6", "7", "8", "9">>
Decimal(n) ==
    IF n < 10 THEN <<Digit[n + 1]>>
    ELSE <<Digit[(n \div 10) + 1], Digit[(n % 10) + 1]>>

\* n distinct question headers Q1, Q2, ... in front of the others
Padding(n) == [i \in 1..n |-> <<"_Q">> \o Decimal(i)]

PaddingCounts == {0, TemplateCapacity - 1, TemplateCapacity}

\* every list of at most n distinct elements of S
DistinctSeqsUpTo(S, n) ==
    {s \in UNION {[1..k -> S] : k \in 0..n} :
        \A i, j \in DOMAIN s : i # j => s[i] # s[j]}

QuestionLists ==
    {Padding(n) \o tail :
        n \in PaddingCounts, tail \in DistinctSeqsUpTo(QuestionTexts, MaxData)}

TemplateRows ==
    UNION {[1..k -> {NoneCell} \cup {StrCell(t) : t \in QuestionTexts}] :
              k \in 0..MaxSlots}

\* a row 6 filled from column C to column AH: the thirty slots Q1..Q30 and
\* the headers of the average and the sample-size column
FullTemplateRow ==
    [i \in 1..(TemplateCapacity + 2) |->
        IF i <= TemplateCapacity THEN StrCell(Padding(TemplateCapacity)[i])
        ELSE IF i = TemplateCapacity + 1 THEN StrCell(<<"Hei", "Kin">>)
        ELSE StrCell(<<"_n">>)]

InitMap ==
    /\ pc = "read"
    /\ template_row6 \in TemplateRows \cup {FullTemplateRow}
    /\ question_cols \in QuestionLists
    /\ df = DataFrame(question_cols, <<>>)
    /\ value = NoneCell
    /\ score = None
    /\ stats = <<>>
    /\ overall_average = None
    /\ template_questions = <<>>
    /\ slot_i = 0
    /\ question_mapping = EmptyDict
    /\ match_details = EmptyDict
    /\ match_info = <<>>
    /\ subject_mapping = <<>>
    /\ subject_i = 0
    /\ ws = <<>>
    /\ rows_written = {}
    /\ created_sheets = <<>>
    /\ placeholders = None
    /\ metadata = <<>>
    /\ mapping_given = FALSE
    /\ free_text_col = <<>>
    /\ exclude_empty = TRUE
    /\ comments = <<>>
    /\ session_state = <<>>
    /\ uploaded_files = <<>>
    /\ all_metadata = <<>>

NextMap == ReadTemplate \/ MapSlot \/ MatchInfo

SpecMap == InitMap /\ [][NextMap]_vars

----------------------------------------------------------------------------
\* Report Workbook Mutator: the rows write_to_template writes.

AverageColumn == 33
SampleSizeColumn == 34

Zentai == <<"Zen", "Tai">>
Kokugo == <<"Koku", "Go">>
Suugaku == <<"Suu", "Gaku">>
ChirekiKoumin == <<"Chi", "Reki", "Kou", "Min">>
Rika == <<"Ri", "Ka">>
Gaikokugo == <<"Gai", "Koku", "Go">>
HokenTaiiku == <<"Ho", "Ken", "Tai", "Iku">>
Geijutsu == <<"Gei", "Jutsu">>
Katei == <<"Ie", "Tei">>
SuperScience == <<"_S", "_S">>
Jouhou == <<"Jou", "Hou">>

\* (category, row of the overview sheet), in the order of the dict
subject_row_mapping ==
    << <<Zentai, 7>>, <<Kokugo, 8>>, <<Suugaku, 9>>, <<ChirekiKoumin, 10>>,
       <<Rika, 11>>, <<Gaikokugo, 12>>, <<HokenTaiiku, 13>>,
       <<Geijutsu, 14>>, <<Katei, 15>>, <<SuperScience, 16>> >>

\* subject_keywords.get(template_subject, [])
subject_keywords(ts) ==
    IF ts = Kokugo THEN <<Kokugo, <<"ko", "ku", "go">>>>
    ELSE IF ts = Suugaku THEN <<Suugaku, <<"su", "u", "ga", "ku">>>>
    ELSE IF ts = ChirekiKoumin
        THEN << <<"Chi", "Ri">>, <<"Reki", "Shi">>, <<"Kou", "Min">>,
                <<"Chi", "Reki">>, <<"Sha", "Kai2">> >>
    ELSE IF ts = Rika
        THEN << Rika, <<"Butsu", "Ri">>, <<"Ka2", "Gaku">>,
                <<"Sei", "Butsu">>, <<"Chi", "Gaku">> >>
    ELSE IF ts = Gaikokugo
        THEN << <<"Ei", "Go">>, Gaikokugo,
                <<"_E", "_n", "_g", "_l", "_i", "_s", "_h">> >>
    ELSE IF ts = HokenTaiiku
        THEN << <<"Ho", "Ken">>, <<"Tai", "Iku">>, <<"ta", "i", "i", "ku">> >>
    ELSE IF ts = Geijutsu
        THEN << <<"On", "Raku">>, <<"Bi", "Jutsu">>, <<"Sho", "Dou">>,
                Geijutsu >>
    ELSE IF ts = Katei THEN <<Katei, <<"ka", "te", "i">>>>
    ELSE IF ts = Jouhou THEN <<Jouhou, <<"ji", "xyo", "u", "ho", "u">>>>
    ELSE <<>>

SUBJECT_COLUMN_PATTERNS ==
    << <<"Ka", "Moku", "Mei">>, <<"Ka", "Moku">>, <<"Kyou", "Ka", "Mei">>,
       <<"Ju", "Gyou", "Mei">> >>

\* A plausible slip: the loops the other way round, the first pattern that
\* a header contains decides.
DetectSubjectColumnByPattern(d) ==
    LET found == {p \in DOMAIN SUBJECT_COLUMN_PATTERNS :
                     \E i \in DOMAIN d.columns :
                         IsSubstring(SUBJECT_COLUMN_PATTERNS[p], d.columns[i])}
        first == CHOOSE p \in found : \A q \in found : p <= q
        hit == {i \in DOMAIN d.columns :
                   IsSubstring(SUBJECT_COLUMN_PATTERNS[first], d.columns[i])}
    IN  IF found = {} THEN None
        ELSE d.columns[CHOOSE i \in hit : \A j \in hit : i <= j]

\* the first header that contains one of the patterns, None without one
detect_subject_column(d) ==
    LET hit == {i \in DOMAIN d.columns :
                   \E p \in DOMAIN SUBJECT_COLUMN_PATTERNS :
                       IsSubstring(SUBJECT_COLUMN_PATTERNS[p], d.columns[i])}
    IN  IF hit = {} THEN None
        ELSE d.columns[CHOOSE i \in hit : \A j \in hit : i <= j]

\* 'subject_col and subject_col in df.columns'
HasSubjectColumn(d) ==
    LET c == detect_subject_column(d)
    IN  c # None /\ c \in Range(d.columns)

\* round(x, 2) of a mean x >= 0, in hundredths; a tie goes to the even
\* hundredth
Round2(r) ==
    LET n == 100 * r[1]
        q == n \div r[2]
        rem == n % r[2]
    IN  IF 2 * rem < r[2] THEN q
        ELSE IF 2 * rem > r[2] THEN q + 1
        ELSE IF q % 2 = 0 THEN q ELSE q + 1

\* df[df[subject_col].isin(labels)]
RECURSIVE SelectRows(_, _, _)
SelectRows(rows, col, labels) ==
    IF rows = <<>> THEN <<>>
    ELSE (IF Head(rows)[col].kind = "str" /\ Head(rows)[col].s \in labels
          THEN <<Head(rows)>> ELSE <<>>)
         \o SelectRows(Tail(rows), col, labels)

FilterIsin(d, labels) ==
    DataFrame(d.columns,
              SelectRows(d.rows, detect_subject_column(d), Range(labels)))

\* df[df[subject_col] == subject_name]
FilterEq(d, label) ==
    DataFrame(d.columns,
              SelectRows(d.rows, detect_subject_column(d), {label}))

\* df[subject_col].unique(), the missing values left out
RECURSIVE UniqueLabels(_, _, _)
UniqueLabels(rows, col, seen) ==
    IF rows = <<>> THEN <<>>
    ELSE IF Head(rows)[col].kind # "str" \/ Head(rows)[col].s \in seen
         THEN UniqueLabels(Tail(rows), col, seen)
         ELSE <<Head(rows)[col].s>>
              \o UniqueLabels(Tail(rows), col, seen \cup {Head(rows)[col].s})

\* a label matches a category by its name or by a keyword it contains
LabelMatches(label, ts) ==
    \/ label = ts
    \/ \E k \in DOMAIN subject_keywords(ts) :
          IsSubstring(subject_keywords(ts)[k], label)

RECURSIVE SelectLabels(_, _)
SelectLabels(labels, ts) ==
    IF labels = <<>> THEN <<>>
    ELSE (IF LabelMatches(Head(labels), ts) THEN <<Head(labels)>> ELSE <<>>)
         \o SelectLabels(Tail(labels), ts)

\* matched_subjects of the automatic mapping
AutoMatched(d, ts) ==
    SelectLabels(UniqueLabels(d.rows, detect_subject_column(d), {}), ts)

\* subject_mapping.get(template_subject, []); the dict is the list of its
\* (category, labels) items
DictGet(items, ts) ==
    IF \E i \in DOMAIN items : items[i][1] = ts
    THEN items[CHOOSE i \in DOMAIN items : items[i][1] = ts][2]
    ELSE <<>>

\* [avg_values[data_idx] for data_idx in question_mapping.values()
\*  if data_idx < len(avg_values)]
RECURSIVE MappedMeans(_, _, _)
MappedMeans(tq, mapping, avg) ==
    IF tq = <<>> THEN <<>>
    ELSE (IF Head(tq)[1] \in DOMAIN mapping
             /\ mapping[Head(tq)[1]] < Len(avg)
          THEN <<avg[mapping[Head(tq)[1]] + 1]>>
          ELSE <<>>)
         \o MappedMeans(Tail(tq), mapping, avg)

\* A plausible slip: the average column holds the mean of the means of all
\* questions, mapped to a slot or not.
RowCellsMeanOfAll(sheet, row, st, n, tq, mapping) ==
    LET avg == MeanValues(st)
        cols == {c \in DOMAIN mapping : mapping[c] < Len(avg)}
    IN  [k \in {<<sheet, row, c>> :
                   c \in cols \cup {AverageColumn, SampleSizeColumn}} |->
            IF k[3] = AverageColumn THEN NumCell(Round2(Mean(avg)))
            ELSE IF k[3] = SampleSizeColumn THEN IntCell(n)
            ELSE NumCell(Round2(avg[mapping[k[3]] + 1]))]

\* the cells of one data row: the mean of each mapped slot, the mean of
\* these means (NaN without one) and the number of rows of the subset
RowCells(sheet, row, st, n, tq, mapping) ==
    LET avg == MeanValues(st)
        cols == {c \in DOMAIN mapping : mapping[c] < Len(avg)}
        means == MappedMeans(tq, mapping, avg)
    IN  [k \in {<<sheet, row, c>> :
                   c \in cols \cup {AverageColumn, SampleSizeColumn}} |->
            IF k[3] = AverageColumn
            THEN IF means = <<>> THEN NanCell
                 ELSE NumCell(Round2(Mean(means)))
            ELSE IF k[3] = SampleSizeColumn THEN IntCell(n)
            ELSE NumCell(Round2(avg[mapping[k[3]] + 1]))]

\* a sheet after the cells w are written into it
WriteCells(w, sheet) == w @@ sheet

\* the record of a row written from a subset of the table
Written(sheet, row, sub) == [sheet |-> sheet, row |-> row, subset |-> sub]

\* the overall row of the overview sheet; the statistics frame of a table
\* without a valid score has no column of means, and reading it raises
WriteOverall ==
    /\ pc = "overall"
    /\ IF stats = <<>>
       THEN /\ pc' = "KeyError"
            /\ UNCHANGED <<ws, rows_written>>
       ELSE /\ ws' = WriteCells(
                        RowCells(OverviewSheet, FirstDataRow, stats, NRows(df),
                                 template_questions, question_mapping), ws)
            /\ rows_written' =
                  rows_written \cup {Written(OverviewSheet, FirstDataRow, df)}
            /\ pc' = IF HasSubjectColumn(df) THEN "subjects" ELSE "save"
    /\ subject_i' = 1
    /\ UNCHANGED <<value, score, df, question_cols, stats, overall_average,
                   template_row6, template_questions, slot_i,
                   question_mapping, match_details, match_info,
                   subject_mapping, created_sheets,
                   placeholders, metadata,
                   mapping_given, free_text_col, exclude_empty, comments,
                   session_state, uploaded_files, all_metadata>>

\* the labels of a category: the assigned ones of an explicit mapping, the
\* matching ones without a mapping
MatchedSubjects(d, mapping, ts) ==
    IF mapping # <<>> THEN DictGet(mapping, ts) ELSE AutoMatched(d, ts)

\* the loop over the categories of the overview sheet, from category i on:
\* the sheet, the rows written and whether reading the means raised
RECURSIVE SubjectRows(_, _, _, _, _, _, _)
SubjectRows(i, d, qs, mapping, tq, qm, acc) ==
    IF i > Len(subject_row_mapping) THEN acc
    ELSE LET ts == subject_row_mapping[i][1]
             row == subject_row_mapping[i][2]
             matched == MatchedSubjects(d, mapping, ts)
             sub == FilterIsin(d, matched)
             st == calculate_statistics(sub, qs)
         IN  IF matched = <<>> \/ NRows(sub) = 0
             THEN SubjectRows(i + 1, d, qs, mapping, tq, qm, acc)
             ELSE IF st = <<>> THEN [acc EXCEPT !.raised = TRUE]
             ELSE SubjectRows(i + 1, d, qs, mapping, tq, qm,
                     [acc EXCEPT
                         !.ws = WriteCells(
                                    RowCells(OverviewSheet, row, st,
                                             NRows(sub), tq, qm), @),
                         !.rows = @ \cup {Written(OverviewSheet, row, sub)}])

\* the category rows of the overview sheet
WriteSubjects ==
    /\ pc = "subjects"
    /\ LET r == SubjectRows(2, df, question_cols, subject_mapping,
                            template_questions, question_mapping,
                            [ws |-> ws, rows |-> rows_written,
                             raised |-> FALSE])
       IN  /\ ws' = r.ws
           /\ rows_written' = r.rows
           /\ pc' = IF r.raised THEN "KeyError"
                    ELSE IF subject_mapping # <<>> THEN "sheets" ELSE "save"
    /\ subject_i' = 1
    /\ UNCHANGED <<value, score, df, question_cols, stats, overall_average,
                   template_row6, template_questions, slot_i,
                   question_mapping, match_details, match_info,
                   subject_mapping, created_sheets,
                   placeholders, metadata,
                   mapping_given, free_text_col, exclude_empty, comments,
                   session_state, uploaded_files, all_metadata>>

TemplateStyleRow == 8

\* A plausible slip: a sheet only for a category of several labels.
GetsSheetMulti(labels) == Len(labels) > 1

\* 'if not matched_subjects: continue' of the loop over the detail sheets
GetsSheet(labels) == labels # <<>>

\* rows 1 to 6 of the overview sheet copied into the sheet of a category;
\* the question row of the template is template_row6
HeaderCopy(w, row6, sheet) ==
    LET upper == {k \in DOMAIN w :
                     k[1] = OverviewSheet /\ k[2] <= LastHeaderRow}
        slots == {i \in DOMAIN row6 : row6[i].kind = "str"}
    IN  [k \in {<<sheet, j[2], j[3]>> : j \in upper} |->
            w[<<OverviewSheet, k[2], k[3]>>]]
        @@ [k \in {<<sheet, LastHeaderRow, i + FirstQuestionColumn - 1>> :
                      i \in slots} |->
               TextCell(row6[k[3] - FirstQuestionColumn + 1].s)]

\* column B of a row of a detail sheet: the text of column B of a row of
\* the overview sheet, substituted
PeriodCell(w, sheet, row, template_row) ==
    IF HasText(w, <<OverviewSheet, template_row, PeriodColumn>>)
    THEN <<sheet, row, PeriodColumn>> :>
            TextCell(replace_placeholders(
                w[<<OverviewSheet, template_row, PeriodColumn>>].s))
    ELSE <<>>

\* the rows of the labels of a detail sheet, from label k on
RECURSIVE LabelRows(_, _, _, _, _, _, _, _, _)
LabelRows(k, labels, sheet, row, d, qs, tq, qm, acc) ==
    IF k > Len(labels) THEN acc
    ELSE LET sub == FilterEq(d, labels[k])
             st == calculate_statistics(sub, qs)
             named == [acc EXCEPT
                          !.ws = WriteCells(
                                     (<<sheet, row, LabelColumn>>
                                          :> TextCell(labels[k]))
                                     @@ PeriodCell(acc.ws, sheet, row,
                                                   TemplateStyleRow), @)]
         IN  IF NRows(sub) = 0
             THEN LabelRows(k + 1, labels, sheet, row + 1, d, qs, tq, qm,
                            named)
             ELSE IF st = <<>> THEN [named EXCEPT !.raised = TRUE]
             ELSE LabelRows(k + 1, labels, sheet, row + 1, d, qs, tq, qm,
                     [named EXCEPT
                         !.ws = WriteCells(
                                    RowCells(sheet, row, st, NRows(sub),
                                             tq, qm), @),
                         !.rows = @ \cup {Written(sheet, row, sub)}])

\* the means of question q over the rows of each label, the labels without
\* a valid score left out
RECURSIVE LabelMeans(_, _, _)
LabelMeans(d, labels, q) ==
    IF labels = <<>> THEN <<>>
    ELSE (IF ValidCount(Scores(FilterEq(d, Head(labels)), q)) > 0
          THEN <<ScoresMean(Scores(FilterEq(d, Head(labels)), q))>>
          ELSE <<>>)
         \o LabelMeans(d, Tail(labels), q)

\* A plausible slip: the mean of a question over a category is the mean of
\* the means of its labels.
CategoryStatisticsOfLabelMeans(d, labels, qs) ==
    LET st == calculate_statistics(FilterIsin(d, labels), qs) IN
    [i \in 1..Len(st) |->
        [st[i] EXCEPT !.mean = Mean(LabelMeans(d, labels, st[i].question))]]

\* the statistics of the aggregate row of a detail sheet: those of the rows
\* whose label is one of the labels of the category
CategoryStatistics(d, labels, qs) ==
    calculate_statistics(FilterIsin(d, labels), qs)

\* one item of subject_mapping: a category without labels is passed over,
\* another one gets a sheet with the header of the overview sheet, its
\* aggregate row and a row for each label
CreateSheet ==
    /\ pc = "sheets"
    /\ subject_i <= Len(subject_mapping)
    /\ LET ts == subject_mapping[subject_i][1]
           labels == subject_mapping[subject_i][2]
           sub == FilterIsin(df, labels)
           st == CategoryStatistics(df, labels, question_cols)
           header == ReplaceTitleRows(
                         WriteCells(HeaderCopy(ws, template_row6, ts), ws),
                         ts)
           titled == [ws |-> WriteCells(
                                (<<ts, FirstDataRow, LabelColumn>>
                                     :> TextCell(ts \o Zentai))
                                @@ PeriodCell(ws, ts, FirstDataRow,
                                              FirstDataRow), header),
                      rows |-> rows_written,
                      raised |-> FALSE]
           r == IF NRows(sub) = 0
                THEN LabelRows(1, labels, ts, FirstDataRow + 1, df,
                               question_cols, template_questions,
                               question_mapping, titled)
                ELSE IF st = <<>> THEN [titled EXCEPT !.raised = TRUE]
                ELSE LabelRows(1, labels, ts, FirstDataRow + 1, df,
                        question_cols, template_questions, question_mapping,
                        [titled EXCEPT
                            !.ws = WriteCells(
                                       RowCells(ts, FirstDataRow, st,
                                                NRows(sub),
                                                template_questions,
                                                question_mapping), @),
                            !.rows = @ \cup
                                {Written(ts, FirstDataRow, sub)}])
       IN  IF ~ GetsSheet(labels)
           THEN UNCHANGED <<ws, rows_written, created_sheets, pc>>
           ELSE /\ ws' = r.ws
                /\ rows_written' = r.rows
                /\ created_sheets' =
                      Append(created_sheets,
                             [sheet_name |-> ts,
                              subject_count |-> Len(labels),
                              subjects |-> labels])
                /\ pc' = IF r.raised THEN "KeyError" ELSE "sheets"
    /\ subject_i' = subject_i + 1
    /\ UNCHANGED <<value, score, df, question_cols, stats, overall_average,
                   template_row6, template_questions, slot_i,
                   question_mapping, match_details, match_info,
                   subject_mapping,
                   placeholders, metadata,
                   mapping_given, free_text_col, exclude_empty, comments,
                   session_state, uploaded_files, all_metadata>>

\* the list of the sheets joins the diagnostics, the workbook is saved and
\* returned
Save ==
    /\ \/ pc = "save"
       \/ pc = "sheets" /\ subject_i > Len(subject_mapping)
    /\ match_info' =
          [template_question_count |-> match_info.template_question_count,
           data_question_count |-> match_info.data_question_count,
           excess_questions |-> match_info.excess_questions,
           total_matches |-> match_info.total_matches,
           exact_matches |-> match_info.exact_matches,
           partial_matches |-> match_info.partial_matches,
           unmapped_questions |-> match_info.unmapped_questions,
           partial_match_details |-> match_info.partial_match_details,
           created_sheets |-> created_sheets]
    /\ pc' = "returned"
    /\ UNCHANGED <<value, score, df, question_cols, stats, overall_average,
                   template_row6, template_questions, slot_i,
                   question_mapping, match_details, subject_mapping,
                   subject_i, ws, rows_written, created_sheets,
                   placeholders, metadata,
                   mapping_given, free_text_col, exclude_empty, comments,
                   session_state, uploaded_files, all_metadata>>

----------------------------------------------------------------------------
\* Inputs of write_to_template.

SubjectHeader == <<"Ka", "Moku", "Mei">>
SuugakuI == <<"Suu", "Gaku", "_I">>
EigoI == <<"Ei", "Go", "_I">>

ReportColumns == <<SubjectHeader, QRikai, QSpeed>>

\* the rows of a report table: a label, and an answer or none to each of
\* the questions
ReportRows ==
    {(SubjectHeader :> StrCell(l)) @@ (QRikai :> ab[1]) @@ (QSpeed :> ab[2]) :
        l \in {SuugakuI, EigoI},
        ab \in {<<Very, Very>>, <<Disagree, Very>>, <<NaNCell, Very>>,
                <<NaNCell, NaNCell>>}}

\* two rows of one label and one of another: the mean over the rows of both
\* is not the mean of the means of the labels
SuugakuA == <<"Suu", "Gaku", "_A">>

UnevenRows ==
    << (SubjectHeader :> StrCell(SuugakuI)) @@ (QRikai :> Very)
           @@ (QSpeed :> Disagree),
       (SubjectHeader :> StrCell(SuugakuI)) @@ (QRikai :> Very)
           @@ (QSpeed :> Disagree),
       (SubjectHeader :> StrCell(SuugakuA)) @@ (QRikai :> Disagree)
           @@ (QSpeed :> Very) >>

UnevenTable == DataFrame(ReportColumns, UnevenRows)

\* a label with the keywords of two categories, kokugo and suugaku
KokugoSuugaku == <<"Koku", "Go", ".", "Suu", "Gaku">>

SharedTable ==
    DataFrame(ReportColumns,
        << (SubjectHeader :> StrCell(KokugoSuugaku)) @@ (QRikai :> Very)
               @@ (QSpeed :> Very),
           (SubjectHeader :> StrCell(SuugakuI)) @@ (QRikai :> Disagree)
               @@ (QSpeed :> Very) >>)

\* a table without a subject column
PlainTable ==
    DataFrame(<<QRikai, QSpeed>>, <<(QRikai :> Very) @@ (QSpeed :> Agree)>>)

ReportTables ==
    {DataFrame(ReportColumns, rows) :
        rows \in UNION {[1..k -> ReportRows] : k \in 0..MaxRows}}
    \cup {UnevenTable, SharedTable, PlainTable}

\* templates with a slot for both questions, for the second alone, and
\* with a slot no question matches
ReportTemplates ==
    { <<StrCell(QRikai), StrCell(QSpeed)>>,
      <<NoneCell, StrCell(QSpeed)>>,
      <<StrCell(Shusseki)>> }

\* no assignment; one category of two labels; categories of one label and
\* of none; a category of two labels and the category the overview sheet
\* has no row for
SubjectMappings ==
    { <<>>,
      << <<Suugaku, <<SuugakuI, EigoI>>>> >>,
      << <<Kokugo, <<>>>>, <<Suugaku, <<SuugakuI>>>>,
         <<Gaikokugo, <<EigoI>>>> >>,
      << <<Suugaku, <<SuugakuI, SuugakuA>>>>, <<Jouhou, <<EigoI>>>> >> }

\* the header texts of the template: the title of row 1 and the period
\* label of column B of the first two data rows
TitleText == <<"Rei", "Wa", "{", "_Y", "}", "Nen", "Do">>
PeriodText == <<"_R", "{", "_Y", "}", " ", "Dai", "{", "_n", "}", "Kai3">>

TemplateSheet(title, period) ==
    (<<OverviewSheet, 1, LabelColumn>> :> TextCell(title))
    @@ (<<OverviewSheet, FirstDataRow, PeriodColumn>> :> TextCell(period))
    @@ (<<OverviewSheet, TemplateStyleRow, PeriodColumn>> :> TextCell(period))

\* the placeholders the application passes, with the values it proposes
KeyY == <<"_Y">>
KeyN == <<"_n">>
KeyMM == <<"_M", "_M">>

AppPlaceholders ==
    << <<KeyY, <<"6">>>>, <<KeyN, <<"1">>>>, <<KeyMM, <<"1", "2">>>> >>

Init ==
    /\ pc = "read"
    /\ template_row6 \in ReportTemplates
    /\ df \in ReportTables
    /\ question_cols = <<QRikai, QSpeed>>
    /\ subject_mapping \in SubjectMappings
    /\ value = NoneCell
    /\ score = None
    /\ stats = <<>>
    /\ overall_average = None
    /\ template_questions = <<>>
    /\ slot_i = 0
    /\ question_mapping = EmptyDict
    /\ match_details = EmptyDict
    /\ match_info = <<>>
    /\ subject_i = 0
    /\ ws = TemplateSheet(TitleText, PeriodText)
    /\ rows_written = {}
    /\ created_sheets = <<>>
    /\ placeholders = AppPlaceholders
    /\ metadata = <<>>
    /\ \/ mapping_given = (subject_mapping # EmptyDict)
       \/ /\ mapping_given = TRUE
          /\ subject_mapping = EmptyDict
          /\ df \in {UnevenTable, SharedTable}
    /\ free_text_col = <<>>
    /\ exclude_empty = TRUE
    /\ comments = <<>>
    /\ session_state = <<>>
    /\ uploaded_files = <<>>
    /\ all_metadata = <<>>

Next ==
    \/ ReadTemplate
    \/ MapSlot
    \/ MatchInfo
    \/ WriteOverall
    \/ WriteSubjects
    \/ CreateSheet
    \/ Save

Spec == Init /\ [][Next]_vars

----------------------------------------------------------------------------
\* Inputs of the placeholder substitution: write_to_template on one table
\* and one assignment, with the header text and the placeholders varied.

MaxText == 3

TextAlphabet == {"{", "}", "_Y", "_n"}

HeaderTexts == UNION {[1..k -> TextAlphabet] : k \in 0..MaxText}

\* the values typed into the text inputs of the application
PlaceholderValues == {<<"6">>, <<>>, Token(KeyY), Token(KeyN)}

PlaceholderMaps ==
    {None}
    \cup {<< <<KeyY, y>>, <<KeyN, n>>, <<KeyMM, <<"1", "2">>>> >> :
             y \in PlaceholderValues, n \in PlaceholderValues}

InitPlace ==
    /\ pc = "read"
    /\ template_row6 = <<StrCell(QRikai), StrCell(QSpeed)>>
    /\ df = UnevenTable
    /\ question_cols = <<QRikai, QSpeed>>
    /\ subject_mapping = << <<Suugaku, <<SuugakuI, SuugakuA>>>> >>
    /\ value = NoneCell
    /\ score = None
    /\ stats = <<>>
    /\ overall_average = None
    /\ template_questions = <<>>
    /\ slot_i = 0
    /\ question_mapping = EmptyDict
    /\ match_details = EmptyDict
    /\ match_info = <<>>
    /\ subject_i = 0
    /\ \E t \in HeaderTexts : ws = TemplateSheet(t, t)
    /\ rows_written = {}
    /\ created_sheets = <<>>
    /\ placeholders \in PlaceholderMaps
    /\ metadata = <<>>
    /\ mapping_given = TRUE
    /\ free_text_col = <<>>
    /\ exclude_empty = TRUE
    /\ comments = <<>>
    /\ session_state = <<>>
    /\ uploaded_files = <<>>
    /\ all_metadata = <<>>

SpecPlace == InitPlace /\ [][Next]_vars

----------------------------------------------------------------------------
\* Column Classifier: the roles load_and_process_csv gives the headers.

METADATA_COLUMNS ==
    { <<"_I", "_d">>, <<"_i", "_d">>, <<"_I", "_D">>,
      <<"Kai4", "Shi2", "Ji", "Koku2">>, <<"Kan2", "Ryou", "Ji", "Koku2">>,
      <<"ME", "-", "RU">>, <<"ME", "-", "RU", "A", "DO", "RE", "SU">>,
      <<"_E", "_m", "_a", "_i", "_l">>, <<"_e", "_m", "_a", "_i", "_l">>,
      <<"Mei", "Mae">>, <<"Shi3", "Mei">>,
      <<"_N", "_a", "_m", "_e">>, <<"_n", "_a", "_m", "_e">>,
      <<"TA", "I", "MU", "SU", "TA", "N", "PU">>,
      <<"_T", "_i", "_m", "_e", "_s", "_t", "_a", "_m", "_p">>,
      <<"_t", "_i", "_m", "_e", "_s", "_t", "_a", "_m", "_p">> }

STUDENT_ID_PATTERNS ==
    << <<"Shutsu", "Seki", "Ban", "Gou">>, <<"Gaku", "Seki2", "Ban", "Gou">>,
       <<"Gaku", "Sei", "Ban", "Gou">> >>

\* iken.kansou, iken, kansou, KOMENTO, jiyuu-kijutsu, sonota,
\* kinyuu-shite-kudasai, go-kinyuu-kudasai
FREE_TEXT_PATTERNS ==
    << <<"I2", "Ken2", ".", "Kan", "Sou">>, <<"I2", "Ken2">>,
       <<"Kan", "Sou">>, <<"KO", "ME", "N", "TO">>,
       <<"Ji2", "Yuu", "Ki", "Jutsu2">>, <<"so", "no", "Ta">>,
       <<"Ki", "Nyuu", "shi", "te", "ku", "da", "sa", "i">>,
       <<"go", "Ki", "Nyuu", "ku", "da", "sa", "i">> >>

priority_patterns ==
    << <<"go", "Ki", "Nyuu", "ku", "da", "sa", "i">>,
       <<"Ki", "Nyuu", "shi", "te", "ku", "da", "sa", "i">>,
       <<"I2", "Ken2", ".", "Kan", "Sou">>,
       <<"Ji2", "Yuu", "Ki", "Jutsu2">> >>

\* 'for col in df.columns: for pattern in patterns: if pattern in col':
\* the first header that contains one of the patterns, None without one
FirstHeaderWith(columns, patterns) ==
    LET hit == {i \in DOMAIN columns :
                   \E p \in DOMAIN patterns :
                       IsSubstring(patterns[p], columns[i])}
    IN  IF hit = {} THEN None
        ELSE columns[CHOOSE i \in hit : \A j \in hit : i <= j]

detect_student_id_column(d) == FirstHeaderWith(d.columns, STUDENT_ID_PATTERNS)

\* the patterns of FREE_TEXT_PATTERNS that are not priority patterns
OtherPatterns ==
    SelectSeq(FREE_TEXT_PATTERNS, LAMBDA p : p \notin Range(priority_patterns))

\* the priority patterns one after the other, each over all the headers;
\* then the headers one after the other, each against the other patterns
detect_free_text_column(d) ==
    LET found == {p \in DOMAIN priority_patterns :
                     FirstHeaderWith(d.columns, <<priority_patterns[p]>>)
                        # None}
    IN  IF found # {}
        THEN FirstHeaderWith(d.columns,
                 <<priority_patterns[CHOOSE p \in found :
                                        \A q \in found : p <= q]>>)
        ELSE FirstHeaderWith(d.columns, OtherPatterns)

\* the headers that are no metadata name and not one of the three detected
\* headers; 'if subject_col' and its like pass over None
ExcludeCols(d) ==
    {c \in Range(d.columns) : c \in METADATA_COLUMNS}
    \cup ({detect_subject_column(d), detect_student_id_column(d),
           detect_free_text_column(d)} \ {None, <<>>})

\* A plausible slip: every header with a subject pattern is taken out.
IdentifyQuestionColumnsEveryMatch(d) ==
    SelectSeq(d.columns,
              LAMBDA c : /\ c \notin ExcludeCols(d)
                         /\ FirstHeaderWith(<<c>>, SUBJECT_COLUMN_PATTERNS)
                               = None)

identify_question_columns(d) ==
    SelectSeq(d.columns, LAMBDA c : c \notin ExcludeCols(d))

\* the metadata load_and_process_csv returns with the table read
load_and_process_csv(d) ==
    [subject_column |-> detect_subject_column(d),
     student_id_column |-> detect_student_id_column(d),
     free_text_column |-> detect_free_text_column(d),
     question_columns |-> identify_question_columns(d),
     total_responses |-> NRows(d)]

\* the detection part of load_and_process_csv, on the table read
LoadAndProcessCsv ==
    /\ pc = "load"
    /\ metadata' = load_and_process_csv(df)
    /\ pc' = "loaded"
    /\ UNCHANGED <<value, score, df, question_cols, stats, overall_average,
                   template_row6, template_questions, slot_i,
                   question_mapping, match_details, match_info,
                   subject_mapping, subject_i, ws, rows_written,
                   created_sheets, placeholders,
                   mapping_given, free_text_col, exclude_empty, comments,
                   session_state, uploaded_files, all_metadata>>

----------------------------------------------------------------------------
\* Inputs of the Column Classifier.

MaxHeaders == 3

GakusekiBangou == <<"Gaku", "Seki2", "Ban", "Gou">>
JugyouMei == <<"Ju", "Gyou", "Mei">>
KamokuNoKansou == <<"Ka", "Moku", "no", "Kan", "Sou">>

\* 'kono jugyou ni kanshite, iken ya kansou ga areba kinyuu shite kudasai'
FreeTextHeader ==
    <<"ko", "no", "Ju", "Gyou", "ni", "Kan3", "shi", "te", ",", "I2",
      "Ken2", "ya", "Kan", "Sou", "ga", "a", "re", "ba", "Ki", "Nyuu", "shi",
      "te", "ku", "da", "sa", "i">>

\* the headers of the test table
SampleHeaders ==
    <<SubjectHeader, GakusekiBangou, QRikai, QSpeed, FreeTextHeader>>

\* a metadata name; two headers for each of the roles; a header with the
\* patterns of two roles; a question
Headers ==
    { <<"_I", "_d">>, SubjectHeader, JugyouMei, GakusekiBangou,
      ShussekiBangou, <<"Kan", "Sou">>, <<"Ji2", "Yuu", "Ki", "Jutsu2">>,
      KamokuNoKansou, QRikai }

HeaderLists == DistinctSeqsUpTo(Headers, MaxHeaders) \cup {SampleHeaders}

InitColumns ==
    /\ pc = "load"
    /\ \E hs \in HeaderLists : df = DataFrame(hs, <<>>)
    /\ question_cols = <<>>
    /\ value = NoneCell
    /\ score = None
    /\ stats = <<>>
    /\ overall_average = None
    /\ template_row6 = <<>>
    /\ template_questions = <<>>
    /\ slot_i = 0
    /\ question_mapping = <<>>
    /\ match_details = <<>>
    /\ match_info = <<>>
    /\ subject_mapping = <<>>
    /\ subject_i = 0
    /\ ws = <<>>
    /\ rows_written = {}
    /\ created_sheets = <<>>
    /\ placeholders = None
    /\ metadata = <<>>
    /\ mapping_given = FALSE
    /\ free_text_col = <<>>
    /\ exclude_empty = TRUE
    /\ comments = <<>>
    /\ session_state = <<>>
    /\ uploaded_files = <<>>
    /\ all_metadata = <<>>

NextColumns == LoadAndProcessCsv

SpecColumns == InitColumns /\ [][NextColumns]_vars

----------------------------------------------------------------------------
\* Integrated workbook: create_integrated_excel on one table and one
\* question list. The sheets are kept in ws, their names in created_sheets
\* and the table each header row is about in rows_written.

\* 'shitsumon koumoku', 'heikinchi', 'SANPURU SAIZU', '4 ten' .. '1 ten'
headers ==
    << <<"Shitsu", "Mon", "Kou", "Moku">>, <<"Hei", "Kin", "Chi2">>,
       <<"SA", "N", "PU", "RU", "SA", "I", "ZU">>, <<"4", "Ten">>,
       <<"3", "Ten">>, <<"2", "Ten">>, <<"1", "Ten">> >>

ValueColumn == 2
SizeColumn == 3

ZentaiHeikin == Zentai \o <<"Hei", "Kin">>

\* the groups in the order of the dict
GroupNames ==
    <<Kokugo, Suugaku, ChirekiKoumin, Rika, Gaikokugo, HokenTaiiku, Geijutsu,
      Katei, Jouhou>>

\* the keywords of a group: those of write_to_template and koten; rinri,
\* seikei, chiri, sekaishi; ei; Water, WS, SSP, SS. (The source has a full
\* stop for the comma behind seikei.)
subject_groups(g) ==
    subject_keywords(g) \o
    (IF g = Kokugo THEN << <<"Ko", "Ten2">> >>
     ELSE IF g = ChirekiKoumin
          THEN << <<"Rin", "Ri">>, <<"Sei2", "Kei">>, <<"Chi", "Ri">>,
                  <<"Se", "Kai5", "Shi">> >>
     ELSE IF g = Gaikokugo THEN << <<"Ei">> >>
     ELSE IF g = Jouhou
          THEN << <<"_W", "_a", "_t", "_e", "_r">>, <<"_W", "_S">>,
                  <<"_S", "_S", "_P">>, <<"_S", "_S">> >>
     ELSE <<>>)

\* the characters of the labels, by code point
CodePointOrder == <<"_A", "_I", ".", "Koku", "Gaku", "Suu", "Ei", "Go">>

\* a < b for two texts, as Python compares strings
RECURSIVE TextBefore(_, _)
TextBefore(a, b) ==
    IF b = <<>> THEN FALSE
    ELSE IF a = <<>> THEN TRUE
    ELSE IF Head(a) = Head(b) THEN TextBefore(Tail(a), Tail(b))
    ELSE LET rank(t) == CHOOSE i \in DOMAIN CodePointOrder :
                            CodePointOrder[i] = t
         IN  rank(Head(a)) < rank(Head(b))

\* sorted(...) of a list of distinct texts
RECURSIVE Sorted(_)
Sorted(xs) ==
    IF xs = <<>> THEN <<>>
    ELSE LET least == CHOOSE i \in DOMAIN xs :
                          \A j \in DOMAIN xs : j # i => TextBefore(xs[i], xs[j])
         IN  <<xs[least]>>
             \o Sorted(SelectSeq(xs, LAMBDA x : x # xs[least]))

\* matched_subjects of a group
GroupMatched(d, g) ==
    SelectSeq(Sorted(UniqueLabels(d.rows, detect_subject_column(d), {})),
              LAMBDA l : \/ l = g
                         \/ \E k \in DOMAIN subject_groups(g) :
                               IsSubstring(subject_groups(g)[k], l))

HeaderRow(sheet) ==
    [k \in {<<sheet, 1, c>> : c \in DOMAIN headers} |-> TextCell(headers[k[3]])]

\* the rows of a statistics frame, from the row 'first' on
StatCells(sheet, first, st) ==
    [k \in {<<sheet, first + i - 1, c>> :
               i \in DOMAIN st, c \in DOMAIN headers} |->
        LET r == st[k[2] - first + 1] IN
        IF k[3] = 1 THEN TextCell(r.question)
        ELSE IF k[3] = ValueColumn THEN NumCell(Round2(r.mean))
        ELSE IF k[3] = SizeColumn THEN IntCell(r.valid_count)
        ELSE IF k[3] = 4 THEN IntCell(r.count_4)
        ELSE IF k[3] = 5 THEN IntCell(r.count_3)
        ELSE IF k[3] = 6 THEN IntCell(r.count_2)
        ELSE IntCell(r.count_1)]

\* a header row: a title, np.mean of the means of the questions, rounded,
\* and the number of rows
AverageRow(sheet, row, title, st, n) ==
    (<<sheet, row, 1>> :> TextCell(title))
    @@ (<<sheet, row, ValueColumn>> :> NumCell(Round2(Mean(MeanValues(st)))))
    @@ (<<sheet, row, SizeColumn>> :> IntCell(n))

\* a header row and the rows of the questions under it
Section(sheet, row, title, sub, qs) ==
    LET st == calculate_statistics(sub, qs)
    IN  AverageRow(sheet, row, title, st, NRows(sub))
        @@ StatCells(sheet, row + 1, st)

\* the overall sheet: the rows of the questions, and the summary row two
\* rows below them
OverallSheet(d, qs) ==
    LET st == calculate_statistics(d, qs)
    IN  HeaderRow(Zentai) @@ StatCells(Zentai, 2, st)
        @@ AverageRow(Zentai, Len(st) + 3, ZentaiHeikin, st, NRows(d))

\* the sections of the labels of a group, from label k and row 'row' on; a
\* frame without a row has no column of means and reading it raises
RECURSIVE LabelSections(_, _, _, _, _, _, _)
LabelSections(k, labels, sheet, row, d, qs, acc) ==
    IF k > Len(labels) \/ acc.raised THEN acc
    ELSE LET sub == FilterEq(d, labels[k])
             st == calculate_statistics(sub, qs)
         IN  IF st = <<>> THEN [acc EXCEPT !.raised = TRUE]
             ELSE LabelSections(k + 1, labels, sheet, row + Len(st) + 2, d, qs,
                     [acc EXCEPT
                         !.ws = Section(sheet, row, labels[k], sub, qs) @@ @,
                         !.rows = @ \cup {Written(sheet, row, sub)}])

\* the sheets of the groups, from group i on
RECURSIVE GroupSheets(_, _, _, _)
GroupSheets(i, d, qs, acc) ==
    IF i > Len(GroupNames) \/ acc.raised THEN acc
    ELSE LET g == GroupNames[i]
             matched == GroupMatched(d, g)
             sub == FilterIsin(d, matched)
             st == calculate_statistics(sub, qs)
         IN  IF matched = <<>> THEN GroupSheets(i + 1, d, qs, acc)
             ELSE IF st = <<>> THEN [acc EXCEPT !.raised = TRUE]
             ELSE GroupSheets(i + 1, d, qs,
                     LabelSections(1, matched, g, Len(st) + 4, d, qs,
                         [acc EXCEPT
                             !.ws = HeaderRow(g)
                                    @@ Section(g, 2, g \o Zentai, sub, qs) @@ @,
                             !.rows = @ \cup {Written(g, 2, sub)},
                             !.sheets = Append(@, g)]))

CreateIntegratedExcel ==
    /\ pc = "call"
    /\ LET st == calculate_statistics(df, question_cols)
           r == GroupSheets(1, df, question_cols,
                    [ws |-> OverallSheet(df, question_cols),
                     rows |-> {Written(Zentai, Len(st) + 3, df)},
                     sheets |-> <<Zentai>>,
                     raised |-> FALSE])
       IN  IF st = <<>>
           THEN /\ pc' = "KeyError"
                /\ UNCHANGED <<ws, rows_written, created_sheets>>
           ELSE IF ~ HasSubjectColumn(df)
           THEN /\ pc' = "integrated"
                /\ ws' = OverallSheet(df, question_cols)
                /\ rows_written' = {Written(Zentai, Len(st) + 3, df)}
                /\ created_sheets' = <<Zentai>>
           ELSE IF r.raised
           THEN /\ pc' = "KeyError"
                /\ UNCHANGED <<ws, rows_written, created_sheets>>
           ELSE /\ pc' = "integrated"
                /\ ws' = r.ws
                /\ rows_written' = r.rows
                /\ created_sheets' = r.sheets
    /\ UNCHANGED <<value, score, df, question_cols, stats, overall_average,
                   template_row6, template_questions, slot_i,
                   question_mapping, match_details, match_info,
                   subject_mapping, subject_i, placeholders, metadata,
                   mapping_given, free_text_col, exclude_empty, comments,
                   session_state, uploaded_files, all_metadata>>

InitIntegrated ==
    /\ pc = "call"
    /\ df \in ReportTables
    /\ question_cols \in DistinctSeqs({QRikai, QSpeed})
    /\ value = NoneCell
    /\ score = None
    /\ stats = <<>>
    /\ overall_average = None
    /\ template_row6 = <<>>
    /\ template_questions = <<>>
    /\ slot_i = 0
    /\ question_mapping = <<>>
    /\ match_details = <<>>
    /\ match_info = <<>>
    /\ subject_mapping = <<>>
    /\ subject_i = 0
    /\ ws = <<>>
    /\ rows_written = {}
    /\ created_sheets = <<>>
    /\ placeholders = None
    /\ metadata = <<>>
    /\ mapping_given = FALSE
    /\ free_text_col = <<>>
    /\ exclude_empty = TRUE
    /\ comments = <<>>
    /\ session_state = <<>>
    /\ uploaded_files = <<>>
    /\ all_metadata = <<>>

NextIntegrated == CreateIntegratedExcel

SpecIntegrated == InitIntegrated /\ [][NextIntegrated]_vars

----------------------------------------------------------------------------
\* Free comments: extract_free_comments on one table.

\* 'toku ni nashi', 'toku ni arimasen', 'nashi', 'nashi' (kanji), ''
exclude_patterns ==
    { <<"Toku", "ni", "na", "shi">>,
      <<"Toku", "ni", "a", "ri", "ma", "se", "n">>,
      <<"na", "shi">>, <<"Na", "shi">>, <<>> }

\* A plausible slip: the text is compared as it stands and trimmed after.
ExtractFreeCommentsRawCompare(d, col, exclude) ==
    IF col = <<>> \/ col \notin Range(d.columns) THEN <<>>
    ELSE IF exclude
    THEN LET kept == SelectSeq(Column(d, col),
                         LAMBDA c : ~ IsNa(c) /\ Str(c) \notin exclude_patterns)
         IN  [i \in DOMAIN kept |-> StrCell(Strip(Str(kept[i])))]
    ELSE Column(d, col)

\* the list returned: texts with exclude_empty, the cells of the column as
\* they are without
extract_free_comments(d, col, exclude) ==
    IF col = <<>> \/ col \notin Range(d.columns) THEN <<>>
    ELSE IF exclude
    THEN LET kept == SelectSeq(Column(d, col),
                         LAMBDA c : /\ ~ IsNa(c)
                                    /\ Strip(Str(c)) \notin exclude_patterns)
         IN  [i \in DOMAIN kept |-> StrCell(Strip(Str(kept[i])))]
    ELSE Column(d, col)

ExtractFreeComments ==
    /\ pc = "extract"
    /\ comments' = extract_free_comments(df, free_text_col, exclude_empty)
    /\ pc' = "extracted"
    /\ UNCHANGED <<value, score, df, question_cols, stats, overall_average,
                   template_row6, template_questions, slot_i,
                   question_mapping, match_details, match_info,
                   subject_mapping, subject_i, ws, rows_written,
                   created_sheets, placeholders, metadata, mapping_given,
                   free_text_col, exclude_empty, session_state,
                   uploaded_files, all_metadata>>

\* the comments of the test table, src/test_data_processor.py:27
Omoshiroi == <<"Omo2", "Shiro", "i", "de", "su">>
KaizentenNashi == <<"Kai6", "Zen2", "Ten", "ha", "a", "ri", "ma", "se", "n">>
Tanoshikatta == <<"Tano", "shi", "ka", "xtsu", "ta">>

SampleComments ==
    DataFrame(<<FreeTextHeader>>,
        << (FreeTextHeader :> StrCell(<<"Toku", "ni", "na", "shi">>)),
           (FreeTextHeader :> StrCell(Omoshiroi)),
           (FreeTextHeader :> StrCell(<<>>)),
           (FreeTextHeader :> StrCell(KaizentenNashi)),
           (FreeTextHeader :> StrCell(Tanoshikatta)) >>)

\* a comment, an excluded phrase, both with spaces around them, a blank
\* text, a comment that holds an excluded phrase, and the missing values
CommentCells ==
    { StrCell(Omoshiroi), StrCell(<<" ">> \o Omoshiroi \o <<" ", " ">>),
      StrCell(<<"na", "shi">>), StrCell(<<" ", "Na", "shi", "\t">>),
      StrCell(<<" ">>), StrCell(<<"na", "shi", "de", "su">>),
      NaNCell, NoneCell }

InitComments ==
    /\ pc = "extract"
    /\ df \in Tables(<<FreeTextHeader>>, CommentCells, MaxRows)
              \cup {SampleComments}
    /\ free_text_col \in {FreeTextHeader, <<>>, SubjectHeader}
    /\ exclude_empty \in BOOLEAN
    /\ comments = <<>>
    /\ question_cols = <<>>
    /\ value = NoneCell
    /\ score = None
    /\ stats = <<>>
    /\ overall_average = None
    /\ template_row6 = <<>>
    /\ template_questions = <<>>
    /\ slot_i = 0
    /\ question_mapping = <<>>
    /\ match_details = <<>>
    /\ match_info = <<>>
    /\ subject_mapping = <<>>
    /\ subject_i = 0
    /\ ws = <<>>
    /\ rows_written = {}
    /\ created_sheets = <<>>
    /\ placeholders = None
    /\ metadata = <<>>
    /\ mapping_given = FALSE
    /\ session_state = <<>>
    /\ uploaded_files = <<>>
    /\ all_metadata = <<>>

NextComments == ExtractFreeComments

SpecComments == InitComments /\ [][NextComments]_vars

----------------------------------------------------------------------------
\* The application: one run of the script loads the uploaded files, joins
\* their tables and shows one selection of labels for each category; the
\* values of the selections stay in the session state from run to run.

MaxFiles == 2       \* uploaded files

\* the columns of pd.concat: those of the first table, then the new ones
\* of each later table
RECURSIVE ConcatColumns(_, _)
ConcatColumns(files, acc) ==
    IF files = <<>> THEN acc
    ELSE ConcatColumns(Tail(files),
             acc \o SelectSeq(Head(files).columns,
                              LAMBDA c : c \notin Range(acc)))

\* the rows of the tables one after the other, NaN under the headers a
\* table does not have
RECURSIVE ConcatRows(_, _)
ConcatRows(files, columns) ==
    IF files = <<>> THEN <<>>
    ELSE [i \in DOMAIN Head(files).rows |->
             [c \in Range(columns) |->
                 IF c \in Range(Head(files).columns)
                 THEN Head(files).rows[i][c] ELSE NaNCell]]
         \o ConcatRows(Tail(files), columns)

\* pd.concat(all_data, ignore_index=True)
Concat(files) ==
    DataFrame(ConcatColumns(files, <<>>),
              ConcatRows(files, ConcatColumns(files, <<>>)))

template_subjects ==
    <<Kokugo, Suugaku, ChirekiKoumin, Rika, Gaikokugo, HokenTaiiku, Geijutsu,
      Katei, Jouhou>>

\* default_keywords, the lists of subject_keywords of write_to_template
default_keywords(ts) == subject_keywords(ts)

available_subjects ==
    Sorted(UniqueLabels(df.rows, detect_subject_column(df), {}))

\* the labels in the session state of the categories before category idx
already_selected(idx) ==
    UNION {Range(session_state[template_subjects[j]]) :
              j \in {k \in 1..(idx - 1) :
                        template_subjects[k] \in DOMAIN session_state}}

\* A plausible slip: every label is offered to every category.
AvailableForAll(idx) == available_subjects

available_for_this(idx) ==
    SelectSeq(available_subjects, LAMBDA l : l \notin already_selected(idx))

default_selected(idx) ==
    SelectSeq(available_for_this(idx),
              LAMBDA l : \/ l = template_subjects[idx]
                         \/ \E k \in DOMAIN default_keywords(template_subjects[idx]) :
                               IsSubstring(default_keywords(template_subjects[idx])[k], l))

\* the values st.multiselect can return: the default selection, or the
\* options the user has picked
Selections(options, default) ==
    {default} \cup {SelectSeq(options, LAMBDA l : l \in S) :
                       S \in SUBSET Range(options)}

\* the files are read and joined
LoadFiles ==
    /\ pc = "upload"
    /\ all_metadata' =
          [i \in DOMAIN uploaded_files |-> load_and_process_csv(uploaded_files[i])]
    /\ df' = Concat(uploaded_files)
    /\ metadata' = load_and_process_csv(uploaded_files[1])
    /\ question_cols' = load_and_process_csv(uploaded_files[1]).question_columns
    /\ subject_mapping' = EmptyDict
    /\ subject_i' = 1
    /\ pc' = IF HasSubjectColumn(Concat(uploaded_files))
             THEN "widgets" ELSE "rendered"
    /\ UNCHANGED <<value, score, stats, overall_average, template_row6,
                   template_questions, slot_i, question_mapping,
                   match_details, match_info, ws, rows_written,
                   created_sheets, placeholders, mapping_given,
                   free_text_col, exclude_empty, comments, session_state,
                   uploaded_files>>

\* the selection of one category is shown and its value read
SelectSubjects ==
    /\ pc = "widgets"
    /\ subject_i <= Len(template_subjects)
    /\ \E selected \in Selections(available_for_this(subject_i),
                                  default_selected(subject_i)) :
          /\ session_state' =
                (template_subjects[subject_i] :> selected) @@ session_state
          /\ subject_mapping' =
                Append(subject_mapping,
                       <<template_subjects[subject_i], selected>>)
    /\ subject_i' = subject_i + 1
    /\ UNCHANGED <<pc, value, score, df, question_cols, stats,
                   overall_average, template_row6, template_questions,
                   slot_i, question_mapping, match_details, match_info, ws,
                   rows_written, created_sheets, placeholders, metadata,
                   mapping_given, free_text_col, exclude_empty, comments,
                   uploaded_files, all_metadata>>

\* the download button: the table, the questions and the assignment are
\* handed to write_to_template
Download ==
    /\ pc = "widgets"
    /\ subject_i > Len(template_subjects)
    /\ mapping_given' = TRUE
    /\ placeholders' = AppPlaceholders
    /\ pc' = "download"
    /\ UNCHANGED <<value, score, df, question_cols, stats, overall_average,
                   template_row6, template_questions, slot_i,
                   question_mapping, match_details, match_info,
                   subject_mapping, subject_i, ws, rows_written,
                   created_sheets, metadata, free_text_col, exclude_empty,
                   comments, session_state, uploaded_files, all_metadata>>

\* the script runs again, the session state is kept
Rerun ==
    /\ \/ pc = "widgets" /\ subject_i > Len(template_subjects)
       \/ pc \in {"download", "rendered"}
    /\ pc' = "upload"
    /\ mapping_given' = FALSE
    /\ placeholders' = None
    /\ UNCHANGED <<value, score, df, question_cols, stats, overall_average,
                   template_row6, template_questions, slot_i,
                   question_mapping, match_details, match_info,
                   subject_mapping, subject_i, ws, rows_written,
                   created_sheets, metadata, free_text_col, exclude_empty,
                   comments, session_state, uploaded_files, all_metadata>>

\* the files of the uploads: one question; two questions and a second
\* label; no subject column
FileA ==
    DataFrame(<<SubjectHeader, QRikai>>,
        << (SubjectHeader :> StrCell(SuugakuI)) @@ (QRikai :> Very) >>)

FileB ==
    DataFrame(ReportColumns,
        << (SubjectHeader :> StrCell(SuugakuA)) @@ (QRikai :> Agree)
               @@ (QSpeed :> Very),
           (SubjectHeader :> StrCell(SuugakuI)) @@ (QRikai :> Very)
               @@ (QSpeed :> Very) >>)

Uploads ==
    UNION {[1..k -> {FileA, FileB}] : k \in 1..MaxFiles}
    \cup {<<PlainTable>>, <<PlainTable, FileA>>}

InitApp ==
    /\ pc = "upload"
    /\ uploaded_files \in Uploads
    /\ all_metadata = <<>>
    /\ session_state = EmptyDict
    /\ df = DataFrame(<<>>, <<>>)
    /\ question_cols = <<>>
    /\ subject_mapping = EmptyDict
    /\ subject_i = 0
    /\ value = NoneCell
    /\ score = None
    /\ stats = <<>>
    /\ overall_average = None
    /\ template_row6 = <<>>
    /\ template_questions = <<>>
    /\ slot_i = 0
    /\ question_mapping = <<>>
    /\ match_details = <<>>
    /\ match_info = <<>>
    /\ ws = <<>>
    /\ rows_written = {}
    /\ created_sheets = <<>>
    /\ placeholders = None
    /\ metadata = <<>>
    /\ mapping_given = FALSE
    /\ free_text_col = <<>>
    /\ exclude_empty = TRUE
    /\ comments = <<>>

NextApp == LoadFiles \/ SelectSubjects \/ Download \/ Rerun

SpecApp == InitApp /\ [][NextApp]_vars

----------------------------------------------------------------------------
\* Counts taken from the table itself, for the claims.

\* number of rows of d whose answer to q has level k
Answers(d, q, k) ==
    Cardinality({i \in 1..Len(d.rows) :
                    convert_to_score(d.rows[i][q]) = Some(k)})

\* number of rows of d with a valid answer to q
Valid(d, q) ==
    Cardinality({i \in 1..Len(d.rows) :
                    convert_to_score(d.rows[i][q]) # None})

\* sum of the valid answers of d to q
Points(d, q) ==
    4 * Answers(d, q, 4) + 3 * Answers(d, q, 3)
        + 2 * Answers(d, q, 2) + Answers(d, q, 1)

RECURSIVE TotalPoints(_, _)
TotalPoints(d, qs) ==
    IF qs = <<>> THEN 0 ELSE Points(d, Head(qs)) + TotalPoints(d, Tail(qs))

RECURSIVE TotalValid(_, _)
TotalValid(d, qs) ==
    IF qs = <<>> THEN 0 ELSE Valid(d, Head(qs)) + TotalValid(d, Tail(qs))

\* the position of x in the list xs of distinct elements
IndexOf(xs, x) == CHOOSE i \in DOMAIN xs : xs[i] = x

----------------------------------------------------------------------------
\* Claims about the Question Reconciler (SpecMap).

\* the slots the loop has gone through
DoneSlots ==
    IF pc = "map" THEN 1..(slot_i - 1)
    ELSE IF pc = "overall" THEN DOMAIN template_questions
    ELSE {}

\* the data indices claimed by the slots left of column col
UsedBefore(col) ==
    {question_mapping[c] : c \in {x \in DOMAIN question_mapping : x < col}}

\* C1: the mapping is one-to-one, no data question index is assigned to two
\* slots; with the slots Shusseki, ShussekiBangou and the one data
\* question ShussekiBangou the first slot is mapped by partial match and
\* the second is reported unmapped.
C1_OneToOne ==
    pc = "overall" =>
        /\ \A c1, c2 \in DOMAIN question_mapping :
              c1 # c2 => question_mapping[c1] # question_mapping[c2]
        /\ (/\ template_questions = << <<3, Shusseki>>, <<4, ShussekiBangou>> >>
            /\ question_cols = <<ShussekiBangou>>)
            => /\ 3 \in DOMAIN match_details
               /\ match_details[3][1] = "template_in_data"
               /\ match_info.unmapped_questions = << <<4, ShussekiBangou>> >>

\* C2: a slot whose text is identical to a data question is mapped to that
\* question with match type exact, also when a data question of lower
\* index matches it partially; a partial match is recorded only when no
\* data question is identical to the slot text.
C2_ExactFirst ==
    \A k \in DoneSlots :
        LET col == template_questions[k][1]
            t == template_questions[k][2]
            identical == {i \in DOMAIN question_cols : question_cols[i] = t}
        IN  /\ identical # {} =>
                  /\ col \in DOMAIN question_mapping
                  /\ question_mapping[col] + 1 \in identical
                  /\ match_details[col][1] = "exact"
            /\ (col \in DOMAIN match_details
                /\ match_details[col][1] # "exact") => identical = {}

C2_Witness ==
    /\ pc = "overall"
    /\ template_questions = << <<3, Shusseki>> >>
    /\ question_cols = <<ShussekiBangou, Shusseki>>
    /\ question_mapping[3] = 1
    /\ match_details[3][1] = "exact"

\* C3: a slot without an exact match is mapped to the unused data question
\* of lowest index that contains the slot text or is contained in it, with
\* match type template-in-data when the slot text is contained in it and
\* data-in-template otherwise; without such a question the slot is in
\* unmapped_questions with its column and text.
C3_FirstUnusedPartial ==
    pc = "overall" =>
        \A k \in DOMAIN template_questions :
            LET col == template_questions[k][1]
                t == template_questions[k][2]
                cand == {i \in DOMAIN question_cols :
                            /\ (i - 1) \notin UsedBefore(col)
                            /\ IsPartial(t, question_cols[i])}
                first == CHOOSE i \in cand : \A j \in cand : i <= j
            IN  (\A i \in DOMAIN question_cols : question_cols[i] # t) =>
                    IF cand # {}
                    THEN /\ col \in DOMAIN question_mapping
                         /\ question_mapping[col] = first - 1
                         /\ match_details[col][1] =
                               IF IsSubstring(t, question_cols[first])
                               THEN "template_in_data"
                               ELSE "data_in_template"
                    ELSE /\ col \notin DOMAIN question_mapping
                         /\ \E u \in DOMAIN match_info.unmapped_questions :
                               match_info.unmapped_questions[u] = <<col, t>>

\* C4: the excess-question list is the data questions from index 30 on, in
\* order, and no slot is mapped to a data question of index 30 or more.
C4_ExcessNeverMapped ==
    pc = "overall" =>
        /\ match_info.excess_questions =
              [i \in 1..(Len(question_cols) - TemplateCapacity) |->
                  question_cols[TemplateCapacity + i]]
        /\ \A c \in DOMAIN question_mapping :
              question_mapping[c] < TemplateCapacity

----------------------------------------------------------------------------
\* Claims about the Report Workbook Mutator (Spec).

\* C5: in every row written (overall row, category row, aggregate row and
\* label row of a detail sheet) the cell of a slot mapped to data question
\* i holds the mean, rounded to two decimals, of the scores of question i
\* over the subset of the row, also when a question of lower index has no
\* valid score in the subset.
C5_SlotMeans ==
    \A w \in rows_written :
        \A c \in DOMAIN question_mapping :
            LET q == question_cols[question_mapping[c] + 1] IN
            Valid(w.subset, q) > 0 =>
                /\ <<w.sheet, w.row, c>> \in DOMAIN ws
                /\ ws[<<w.sheet, w.row, c>>] =
                      NumCell(Round2(Rat(Points(w.subset, q),
                                         Valid(w.subset, q))))

\* the rows of the table that belong to the subset of one of the label rows
\* written on the sheet of a category, in the order of the table
UnionOfLabelRows(sheet) ==
    LET parts == {w \in rows_written :
                     w.sheet = sheet /\ w.row > FirstDataRow}
        InPart(r) == \E w \in parts : r \in Range(w.subset.rows)
    IN  DataFrame(df.columns, SelectSeq(df.rows, InPart))

\* C11: the aggregate row of the detail sheet of a category holds the
\* statistics of the union of the row subsets of its label rows: each
\* mapped slot the mean the statistics of the union give it, the average
\* column the mean of these, the sample size the number of rows of the
\* union.
C11_AggregateOfUnion ==
    pc # "KeyError" =>
        \A j \in DOMAIN created_sheets :
            LET ts == created_sheets[j].sheet_name
                U == UnionOfLabelRows(ts)
                avg == MeanValues(calculate_statistics(U, question_cols))
                cols == {c \in DOMAIN question_mapping :
                            question_mapping[c] < Len(avg)}
            IN  NRows(U) > 0 =>
                  /\ Written(ts, FirstDataRow, U) \in rows_written
                  /\ ws[<<ts, FirstDataRow, SampleSizeColumn>>]
                        = IntCell(NRows(U))
                  /\ \A c \in cols :
                        ws[<<ts, FirstDataRow, c>>] =
                           NumCell(Round2(avg[question_mapping[c] + 1]))
                  /\ cols # {} =>
                        ws[<<ts, FirstDataRow, AverageColumn>>] =
                           NumCell(Round2(Mean(
                               MappedMeans(template_questions,
                                           question_mapping, avg))))

\* two rows of one label with the mean 4 and one row of another with the
\* mean 1: the aggregate row holds 3.00, not the 2.50 of the two means
C11_Witness ==
    /\ pc = "returned"
    /\ df = UnevenTable
    /\ Len(created_sheets) > 0
    /\ created_sheets[1].subjects = <<SuugakuI, SuugakuA>>
    /\ question_mapping = (3 :> 0) @@ (4 :> 1)
    /\ ws[<<Suugaku, FirstDataRow, 3>>] = NumCell(300)
    /\ ws[<<Suugaku, FirstDataRow + 1, 3>>] = NumCell(400)
    /\ ws[<<Suugaku, FirstDataRow + 2, 3>>] = NumCell(100)
    /\ ws[<<Suugaku, FirstDataRow, SampleSizeColumn>>] = IntCell(3)

\* the categories of the application and of the overview sheet
Categories ==
    {Kokugo, Suugaku, ChirekiKoumin, Rika, Gaikokugo, HokenTaiiku, Geijutsu,
     Katei, SuperScience, Jouhou}

\* the names of the detail sheets, in the order of their creation
SheetNames == [j \in DOMAIN created_sheets |-> created_sheets[j].sheet_name]

\* the categories of the assignment with a label, in its order
RECURSIVE AssignedCategories(_)
AssignedCategories(items) ==
    IF items = <<>> THEN <<>>
    ELSE (IF Head(items)[2] # <<>> THEN <<Head(items)[1]>> ELSE <<>>)
         \o AssignedCategories(Tail(items))

\* C14 as claimed: a category of more than one label, assigned or matched
\* by keyword, has a detail sheet, and a category of fewer than two labels
\* has none.
C14_SheetIffSeveralLabels ==
    (pc = "returned" /\ HasSubjectColumn(df)) =>
        \A ts \in Categories :
            LET labels == MatchedSubjects(df, subject_mapping, ts) IN
            /\ Len(labels) > 1 => ts \in Range(SheetNames)
            /\ Len(labels) < 2 => ts \notin Range(SheetNames)

\* C14 amended: the detail sheets are those of the categories of an
\* explicit assignment with at least one label, in the order of the
\* assignment; without an assignment, or without a subject column, there
\* is none.
C14_SheetIffAssigned ==
    pc = "returned" =>
        SheetNames = IF HasSubjectColumn(df)
                     THEN AssignedCategories(subject_mapping)
                     ELSE <<>>

\* a category of one label has its sheet, a category of none has not
C14_Witness ==
    /\ pc = "returned"
    /\ subject_mapping =
          << <<Kokugo, <<>>>>, <<Suugaku, <<SuugakuI>>>>,
             <<Gaikokugo, <<EigoI>>>> >>
    /\ SheetNames = <<Suugaku, Gaikokugo>>
    /\ <<Suugaku, FirstDataRow, LabelColumn>> \in DOMAIN ws

\* the rows of a sheet, from the first data row on, that hold a cell
DataRows(sheet) ==
    {k[2] : k \in {x \in DOMAIN ws : x[1] = sheet /\ x[2] >= FirstDataRow}}

\* the subsets a detail sheet is about that have a row of the table: the
\* one of the category and the one of each of its labels
NonEmptySubsets(labels) ==
    (IF NRows(FilterIsin(df, labels)) > 0 THEN {0} ELSE {})
    \cup {k \in DOMAIN labels : NRows(FilterEq(df, labels[k])) > 0}

\* C15: an empty row subset raises no error and gets no row: the overview
\* row of a category without a row of the table holds no value, and a
\* detail sheet holds neither the name of a label without a row of the
\* table nor a row left empty for it, and no aggregate row for a category
\* without a row of the table.
C15_EmptySubsetNoRow ==
    pc = "returned" =>
        /\ \A i \in 2..Len(subject_row_mapping) :
              LET labels == MatchedSubjects(df, subject_mapping,
                                            subject_row_mapping[i][1])
              IN  (HasSubjectColumn(df) /\ labels # <<>>
                   /\ NRows(FilterIsin(df, labels)) = 0) =>
                      \A k \in DOMAIN ws :
                          ~ (/\ k[1] = OverviewSheet
                             /\ k[2] = subject_row_mapping[i][2]
                             /\ k[3] >= FirstQuestionColumn)
        /\ \A j \in DOMAIN created_sheets :
              LET ts == created_sheets[j].sheet_name
                  labels == created_sheets[j].subjects
              IN  /\ \A k \in DOMAIN labels :
                        NRows(FilterEq(df, labels[k])) = 0 =>
                            \A x \in DOMAIN ws :
                                x[1] = ts => ws[x] # TextCell(labels[k])
                  /\ Cardinality(DataRows(ts))
                        = Cardinality(NonEmptySubsets(labels))

\* the categories the application lets the user assign labels to
AppCategories ==
    {Kokugo, Suugaku, ChirekiKoumin, Rika, Gaikokugo, HokenTaiiku, Geijutsu,
     Katei, Jouhou}

\* C16: every category of the application has a row of the overview sheet:
\* when its assigned labels select a row of the table, its values are
\* written into that row.
C16_EveryCategoryHasRow ==
    (pc \in {"sheets", "save", "returned"} /\ HasSubjectColumn(df)
     /\ subject_mapping # <<>>) =>
        \A ts \in AppCategories :
            LET labels == DictGet(subject_mapping, ts)
                sub == FilterIsin(df, labels)
            IN  (labels # <<>> /\ NRows(sub) > 0) =>
                    \E i \in 2..Len(subject_row_mapping) :
                        /\ subject_row_mapping[i][1] = ts
                        /\ Written(OverviewSheet, subject_row_mapping[i][2],
                                   sub) \in rows_written
                        /\ ws[<<OverviewSheet, subject_row_mapping[i][2],
                                SampleSizeColumn>>] = IntCell(NRows(sub))

\* every row of the table answers every question
FullyAnswered ==
    \A i \in DOMAIN df.rows :
        \A j \in DOMAIN question_cols :
            convert_to_score(df.rows[i][question_cols[j]]) # None

\* the keys of the diagnostics returned
MatchInfoKeys ==
    {"template_question_count", "data_question_count", "excess_questions",
     "total_matches", "exact_matches", "partial_matches",
     "unmapped_questions", "partial_match_details", "created_sheets"}

\* C17: a gap of the reconciliation does not block the report: on a table
\* that answers every question the function returns with its diagnostics,
\* whatever the template matches, and the average column of every row
\* written holds a number.
C17_GapsNeverBlock ==
    (FullyAnswered /\ NRows(df) > 0) =>
        /\ pc # "KeyError"
        /\ pc = "returned" =>
              /\ DOMAIN match_info = MatchInfoKeys
              /\ \A w \in rows_written :
                    LET k == <<w.sheet, w.row, AverageColumn>> IN
                    k \in DOMAIN ws => ws[k].kind = "num"

\* C18: the response data does not make the function fail: without a valid
\* score in the table, or in the rows of a category or of a label, the
\* function returns all the same and no value is written for these rows.
C18_DataNeverFails ==
    /\ pc # "KeyError"
    /\ \A w \in rows_written : TotalValid(w.subset, question_cols) > 0

----------------------------------------------------------------------------
\* Claims about the Statistics Aggregator (SpecStats).

\* C6: get_overall_average is the sum of all valid scores of all question
\* columns divided by their number (0.0 when there is none); on the test
\* table it is 25/9 and not the mean 111/40 of the two question means.
C6_UnionWeighted ==
    pc = "averaged" =>
        /\ TotalValid(df, question_cols) > 0 =>
              RatEq(overall_average,
                    Rat(TotalPoints(df, question_cols),
                        TotalValid(df, question_cols)))
        /\ TotalValid(df, question_cols) = 0 =>
              RatEq(overall_average, Rat(0, 1))
        /\ (df = sample_df /\ question_cols = <<QRikai, QSpeed>>) =>
              /\ RatEq(overall_average, Rat(25, 9))
              /\ ~ RatEq(overall_average, Rat(111, 40))

C6_Witness ==
    /\ pc = "averaged"
    /\ df = sample_df
    /\ question_cols = <<QRikai, QSpeed>>
    /\ RatEq(overall_average, Rat(25, 9))

\* C7: calculate_statistics emits a row for a question exactly when the
\* question has a valid score in the table, no emitted row has valid count
\* 0, and the emitted rows keep the order of the question list.
C7_NoEmptyRows ==
    pc \in {"stats", "averaged"} =>
        /\ \A q \in {question_cols[i] : i \in DOMAIN question_cols} :
              (\E r \in DOMAIN stats : stats[r].question = q)
                  <=> Valid(df, q) > 0
        /\ \A r \in DOMAIN stats :
              /\ stats[r].valid_count # 0
              /\ \E i \in DOMAIN question_cols :
                    question_cols[i] = stats[r].question
        /\ \A a, b \in DOMAIN stats :
              a < b => IndexOf(question_cols, stats[a].question)
                          < IndexOf(question_cols, stats[b].question)

C7_Witness ==
    /\ pc = "stats"
    /\ question_cols = <<QSpeed, QRikai>>
    /\ Len(df.rows) = 2
    /\ Valid(df, QSpeed) = 0
    /\ Len(stats) = 1
    /\ stats[1].question = QRikai

\* C8: in every emitted row the valid count is the number of rows with a
\* score, the count of each level is the number of rows with that score,
\* the four counts sum to the valid count, and the mean is the sum of the
\* valid scores divided by the valid count.
C8_RowContents ==
    pc \in {"stats", "averaged"} =>
        /\ \A r \in DOMAIN stats :
              LET q == stats[r].question IN
              /\ stats[r].valid_count = Valid(df, q)
              /\ stats[r].count_4 = Answers(df, q, 4)
              /\ stats[r].count_3 = Answers(df, q, 3)
              /\ stats[r].count_2 = Answers(df, q, 2)
              /\ stats[r].count_1 = Answers(df, q, 1)
              /\ stats[r].count_4 + stats[r].count_3 + stats[r].count_2
                    + stats[r].count_1 = stats[r].valid_count
              /\ RatEq(stats[r].mean, Rat(Points(df, q), Valid(df, q)))
        /\ (df = sample_df /\ question_cols = <<QRikai, QSpeed>>) =>
              /\ Len(stats) = 2
              /\ stats[1].valid_count = 5 /\ RatEq(stats[1].mean, Rat(14, 5))
              /\ stats[1].count_4 = 2 /\ stats[1].count_1 = 1
              /\ stats[2].valid_count = 4 /\ RatEq(stats[2].mean, Rat(11, 4))
              /\ stats[2].count_3 = 3 /\ stats[2].count_2 = 1

C8_Witness ==
    /\ pc = "stats"
    /\ df = sample_df
    /\ question_cols = <<QRikai, QSpeed>>
    /\ stats[2].valid_count = 4
    /\ stats[2].count_4 = 0

----------------------------------------------------------------------------
\* Claims about the Score Normalizer (SpecScore).

AllWhite(s) == \A i \in DOMAIN s : s[i] \in WhiteSpace

\* the levels as the table's headings and the tests document them,
\* src/data_processor.py:15-38, src/test_data_processor.py:33-39
Level4Phrases ==
    {Totemo \o SouOmou, Atehamaru, Totemo \o Atehamaru,
     <<"Tsuyo", "ku">> \o SouOmou}
Level3Phrases ==
    {SouOmou, Dochiraka \o SouOmou, <<"ya", "ya">> \o Atehamaru,
     Dochiraka \o Atehamaru}
Level2Phrases ==
    {Amari \o SouOmowanai, Dochiraka \o SouOmowanai, Amari \o Atehamaranai,
     Dochiraka \o Atehamaranai}
Level1Phrases ==
    {<<"Omo", "wa", "na", "i">>, SouOmowanai, Atehamaranai,
     Mattaku \o Atehamaranai, Mattaku \o SouOmowanai}

CanonicalPhrases ==
    Level4Phrases \cup Level3Phrases \cup Level2Phrases \cup Level1Phrases

DocumentedLevel(p) ==
    IF p \in Level4Phrases THEN 4
    ELSE IF p \in Level3Phrases THEN 3
    ELSE IF p \in Level2Phrases THEN 2
    ELSE 1

\* s is phrase p with whitespace before and after it
IsPadded(s, p) ==
    \E i \in 1..(Len(s) + 1) :
        /\ i + Len(p) - 1 <= Len(s)
        /\ SubSeq(s, i, i + Len(p) - 1) = p
        /\ AllWhite(SubSeq(s, 1, i - 1))
        /\ AllWhite(SubSeq(s, i + Len(p), Len(s)))

\* C9: for every phrase of the canonical table, with any whitespace added
\* before and after it, convert_to_score returns the phrase's documented
\* level.
C9_PhraseLevel ==
    (pc = "scored" /\ value.kind = "str") =>
        \A p \in CanonicalPhrases :
            IsPadded(value.s, p) => score = Some(DocumentedLevel(p))

C9_Witness ==
    /\ pc = "scored"
    /\ value = StrCell(<<" ">> \o Dochiraka \o Atehamaru \o <<"\t">>)
    /\ score = Some(3)

\* C10: convert_to_score returns None for a missing cell, for the empty
\* text and for every text whose trimmed form is no key of the table, and
\* its result is always None or one of 1, 2, 3, 4.
C10_NullOtherwise ==
    pc = "scored" =>
        /\ score \in {None, Some(1), Some(2), Some(3), Some(4)}
        /\ (value.kind # "str" \/ ~ \E p \in CanonicalPhrases :
                                        IsPadded(value.s, p))
            => score = None

C10_Witness ==
    /\ pc = "scored"
    /\ value = StrCell(<<" ">> \o SouOmou \o <<"yo">>)
    /\ score = None

----------------------------------------------------------------------------
\* Claims about the placeholder substitution (SpecPlace).

\* the cells of the overview sheet the substitution is applied to
Substituted(w) ==
    {k \in DOMAIN w :
        (InTitleRows(k, OverviewSheet) \/ InPeriodCells(k)) /\ HasText(w, k)}

\* C12: the substitution is idempotent: a text of the overview sheet that
\* was substituted once is not changed by a second substitution, so the
\* title rows of a detail sheet, copied from the overview sheet and
\* substituted again, and its column B, read from the overview sheet and
\* substituted again, hold the texts of the overview sheet.
C12_Idempotent ==
    pc # "read" =>
        /\ \A k \in Substituted(ws) : replace_placeholders(ws[k].s) = ws[k].s
        /\ \A k \in DOMAIN ws :
              (k[1] # OverviewSheet /\ k[2] \in {1, 2}) =>
                  ws[k] = ws[<<OverviewSheet, k[2], k[3]>>]
        /\ \A k \in DOMAIN ws :
              (k[1] # OverviewSheet /\ k[3] = PeriodColumn
               /\ k[2] = FirstDataRow) =>
                  ws[k] = ws[<<OverviewSheet, FirstDataRow, PeriodColumn>>]

\* the text with every token {k} of a key k replaced by the value of k in
\* one pass from the left; what is inserted is not read again
RECURSIVE SinglePass(_, _)
SinglePass(text, items) ==
    LET hits == {i \in DOMAIN items :
                    /\ Len(Token(items[i][1])) <= Len(text)
                    /\ SubSeq(text, 1, Len(Token(items[i][1])))
                          = Token(items[i][1])}
        i == CHOOSE h \in hits : \A j \in hits : h <= j
    IN  IF text = <<>> THEN <<>>
        ELSE IF hits = {} THEN <<Head(text)>> \o SinglePass(Tail(text), items)
        ELSE items[i][2]
             \o SinglePass(SubSeq(text, Len(Token(items[i][1])) + 1,
                                  Len(text)), items)

\* C13: the result of the substitution of a header text is the text with
\* every token of a key replaced by the value of the key in a single pass:
\* a token that is not a key stays, and an inserted value is not scanned
\* for tokens.
C13_SinglePass ==
    [][pc = "read" =>
          \A k \in Substituted(ws) :
              ws'[k].s = SinglePass(ws[k].s, placeholders)]_vars

----------------------------------------------------------------------------
\* Claims about the Column Classifier (SpecColumns).

\* the headers reported for the three roles, None left out
RoleHeaders ==
    {metadata.subject_column, metadata.student_id_column,
     metadata.free_text_column} \ {None}

\* C19: every header has one role: the headers reported as subject,
\* student-id and free-text column are pairwise distinct when they are not
\* null, none of them is a metadata name and none is a question column.
C19_OneRolePerHeader ==
    pc = "loaded" =>
        /\ metadata.subject_column # None =>
              /\ metadata.subject_column # metadata.student_id_column
              /\ metadata.subject_column # metadata.free_text_column
        /\ metadata.student_id_column # None =>
              metadata.student_id_column # metadata.free_text_column
        /\ RoleHeaders \cap METADATA_COLUMNS = {}
        /\ RoleHeaders \cap Range(metadata.question_columns) = {}

\* C20: the question columns are, in the order of the headers, the headers
\* that are no metadata name and not the header reported for one of the
\* three roles; a second header with the patterns of a role stays a
\* question; the test table has the two questions the test expects.
C20_QuestionsAreTheRest ==
    pc = "loaded" =>
        LET qs == metadata.question_columns IN
        /\ \A i \in DOMAIN df.columns :
              df.columns[i] \in Range(qs)
                 <=> /\ df.columns[i] \notin METADATA_COLUMNS
                     /\ df.columns[i] \notin RoleHeaders
        /\ Range(qs) \subseteq Range(df.columns)
        /\ \A i, j \in DOMAIN qs :
              i < j => IndexOf(df.columns, qs[i]) < IndexOf(df.columns, qs[j])
        /\ Len(df.columns) - Len(qs)
              <= Cardinality(Range(df.columns) \cap METADATA_COLUMNS) + 3
        /\ df.columns = SampleHeaders => qs = <<QRikai, QSpeed>>

\* the second header with a subject pattern stays a question
C20_Witness ==
    /\ pc = "loaded"
    /\ df.columns = <<SubjectHeader, JugyouMei, QRikai>>
    /\ metadata.subject_column = SubjectHeader
    /\ metadata.question_columns = <<JugyouMei, QRikai>>

\* the positions of the headers that contain one of the patterns
Containing(patterns) ==
    {i \in DOMAIN df.columns :
        \E p \in DOMAIN patterns : IsSubstring(patterns[p], df.columns[i])}

\* the header at the lowest of the positions, None without a position
FirstAt(positions) ==
    IF positions = {} THEN None
    ELSE df.columns[CHOOSE i \in positions : \A j \in positions : i <= j]

\* the positions of the priority patterns that occur in a header
PriorityFound ==
    {p \in DOMAIN priority_patterns : Containing(<<priority_patterns[p]>>) # {}}

\* the patterns of the broader tier: iken, kansou, KOMENTO, sonota
BroaderPatterns ==
    << <<"I2", "Ken2">>, <<"Kan", "Sou">>, <<"KO", "ME", "N", "TO">>,
       <<"so", "no", "Ta">> >>

\* C21: the free-text column is, when a header contains a priority pattern,
\* the first header with the earliest priority pattern that occurs, also
\* behind a header with a broader pattern only; else the first header with
\* a broader pattern that is not the subject or the student-id column;
\* else null.
C21_TwoTierFreeText ==
    pc = "loaded" =>
        metadata.free_text_column =
            IF PriorityFound # {}
            THEN FirstAt(Containing(
                     <<priority_patterns[CHOOSE p \in PriorityFound :
                                            \A q \in PriorityFound : p <= q]>>))
            ELSE FirstAt({i \in Containing(BroaderPatterns) :
                             /\ df.columns[i] # metadata.subject_column
                             /\ df.columns[i] # metadata.student_id_column})

\* C22: the subject column and the student-id column are each the first
\* header, in the order of the headers, that contains a pattern of the
\* list, and null when no header contains one.
C22_FirstHeaderDecides ==
    pc = "loaded" =>
        /\ metadata.subject_column
              = FirstAt(Containing(SUBJECT_COLUMN_PATTERNS))
        /\ metadata.student_id_column
              = FirstAt(Containing(STUDENT_ID_PATTERNS))
        /\ df.columns = SampleHeaders =>
              /\ metadata.subject_column = SubjectHeader
              /\ metadata.student_id_column = GakusekiBangou

\* the header with the third pattern stands before the header with the
\* first pattern and is the subject column
C22_Witness ==
    /\ pc = "loaded"
    /\ df.columns = <<JugyouMei, SubjectHeader, ShussekiBangou>>
    /\ metadata.subject_column = JugyouMei
    /\ metadata.student_id_column = ShussekiBangou

----------------------------------------------------------------------------
\* Claims on the category rows of the overview sheet.

\* the label of a row of the table, <<>> for a missing one
LabelOf(r) ==
    LET c == r[detect_subject_column(df)]
    IN  IF c.kind = "str" THEN c.s ELSE <<>>

\* the category rows of the overview sheet that are written
CategoryRows ==
    {w \in rows_written : w.sheet = OverviewSheet /\ w.row > FirstDataRow}

\* the rows of the table whose label has the name of the category or
\* contains one of its keywords
RowsMatching(ts) ==
    SelectSeq(df.rows,
              LAMBDA r : /\ LabelOf(r) # <<>>
                         /\ \/ LabelOf(r) = ts
                            \/ \E k \in DOMAIN subject_keywords(ts) :
                                  IsSubstring(subject_keywords(ts)[k],
                                              LabelOf(r)))

\* the automatic matching has written all its category rows
AutoDone ==
    /\ pc \in {"save", "returned"}
    /\ ~ mapping_given
    /\ HasSubjectColumn(df)

\* without an assignment the row of every category is written from the
\* rows whose label has the name of the category or contains one of its
\* keywords, and a category without such a row has no row
EveryMatchingCategory ==
    AutoDone =>
        \A i \in 2..Len(subject_row_mapping) :
            LET ts == subject_row_mapping[i][1]
                row == subject_row_mapping[i][2]
                at == {w \in CategoryRows : w.row = row}
            IN  IF RowsMatching(ts) = <<>> THEN at = {}
                ELSE \E w \in at : at = {w} /\ w.subset.rows = RowsMatching(ts)

\* C23: without an assignment a label matches a category exactly when it
\* has its name or contains one of its keywords, and a label that matches
\* several categories is claimed by the first of them only: the rows of
\* one label are in one category row at most.
C23_FirstCategoryClaims ==
    /\ EveryMatchingCategory
    /\ AutoDone =>
          \A i \in DOMAIN df.rows :
              Cardinality({w \in CategoryRows :
                             \E j \in DOMAIN w.subset.rows :
                                 LabelOf(w.subset.rows[j]) = LabelOf(df.rows[i])})
                 <= 1

\* the rows whose label is in the list the assignment gives the category
RowsAssigned(ts) ==
    SelectSeq(df.rows,
              LAMBDA r : \E k \in DOMAIN DictGet(subject_mapping, ts) :
                             DictGet(subject_mapping, ts)[k] = LabelOf(r))

\* C24: an assignment that is handed in, an empty one and one of empty
\* lists included, is used as it is: no name or keyword is matched, and a
\* category row is written from the rows whose label is in the list of
\* the category only.
C24_AssignmentVerbatim ==
    (mapping_given /\ HasSubjectColumn(df)) =>
        \A w \in CategoryRows :
            \E i \in 2..Len(subject_row_mapping) :
                /\ subject_row_mapping[i][2] = w.row
                /\ w.subset.rows = RowsAssigned(subject_row_mapping[i][1])

\* the questions of the list with a valid answer in the subset, in order:
\* the questions of the rows of its statistics frame
Answered(sub) == SelectSeq(question_cols, LAMBDA q : Valid(sub, q) > 0)

\* the mean, not rounded, behind the slot cell of column c of a written row
SlotMean(w, c) ==
    LET q == Answered(w.subset)[question_mapping[c] + 1]
    IN  Rat(Points(w.subset, q), Valid(w.subset, q))

\* the means behind the slot cells of a written row, from column c on
RECURSIVE SlotMeansFrom(_, _)
SlotMeansFrom(w, c) ==
    IF c > LastQuestionColumn THEN <<>>
    ELSE (IF <<w.sheet, w.row, c>> \in DOMAIN ws
          THEN <<SlotMean(w, c)>> ELSE <<>>)
         \o SlotMeansFrom(w, c + 1)

\* C27: in every row written the average column holds the mean, rounded to
\* two decimals, of the means (not rounded) behind the slot cells of the
\* row, and the sample-size column holds the number of rows of the subset
\* of the row, answered or not.
C27_AverageOfWrittenSlots ==
    \A w \in rows_written :
        LET means == SlotMeansFrom(w, FirstQuestionColumn) IN
        /\ ws[<<w.sheet, w.row, SampleSizeColumn>>] = IntCell(NRows(w.subset))
        /\ means # <<>> =>
              ws[<<w.sheet, w.row, AverageColumn>>]
                 = NumCell(Round2(RatDiv(RatSum(means), Len(means))))

\* one slot, of the second question: the average is the mean of the second
\* question, 4.00, the first question (1 point) is not in it; one of the
\* two rows of the category has no answer and is counted
C27_Witness ==
    /\ pc = "returned"
    /\ template_row6 = <<NoneCell, StrCell(QSpeed)>>
    /\ \E w \in rows_written :
          /\ w.row > FirstDataRow
          /\ NRows(w.subset) = 2
          /\ Valid(w.subset, QRikai) = 1
          /\ Points(w.subset, QRikai) = 1
          /\ Valid(w.subset, QSpeed) = 1
          /\ ws[<<w.sheet, w.row, FirstQuestionColumn + 1>>] = NumCell(400)
          /\ ws[<<w.sheet, w.row, AverageColumn>>] = NumCell(400)
          /\ ws[<<w.sheet, w.row, SampleSizeColumn>>] = IntCell(2)

----------------------------------------------------------------------------
\* Claims on the diagnostics.

\* the columns of the question row, C to AF, whose cell holds a text
SlotColumns ==
    {c \in FirstQuestionColumn..LastQuestionColumn :
        /\ c - FirstQuestionColumn + 1 \in DOMAIN template_row6
        /\ template_row6[c - FirstQuestionColumn + 1].kind = "str"
        /\ template_row6[c - FirstQuestionColumn + 1].s # <<>>}

\* the columns listed in unmapped_questions
UnmappedColumns ==
    {match_info.unmapped_questions[k][1] :
        k \in DOMAIN match_info.unmapped_questions}

\* C30: the diagnostics agree with each other: every slot of the template
\* is mapped or listed in unmapped_questions and not both, total_matches
\* is exact_matches plus partial_matches, total_matches plus the number of
\* unmapped slots is template_question_count, which is 30 at most,
\* partial_match_details has partial_matches entries, and
\* data_question_count is the length of the question list.
C30_DiagnosticsAgree ==
    pc = "overall" =>
        /\ \A c \in SlotColumns :
              (c \in DOMAIN question_mapping) # (c \in UnmappedColumns)
        /\ UnmappedColumns \subseteq SlotColumns
        /\ DOMAIN question_mapping \subseteq SlotColumns
        /\ match_info.total_matches
              = match_info.exact_matches + match_info.partial_matches
        /\ match_info.total_matches + Len(match_info.unmapped_questions)
              = match_info.template_question_count
        /\ match_info.template_question_count = Cardinality(SlotColumns)
        /\ match_info.template_question_count <= TemplateCapacity
        /\ Len(match_info.partial_match_details)
              = match_info.partial_matches
        /\ match_info.data_question_count = Len(question_cols)

\* a row 6 of 32 texts has 30 slots; with the questions Q1..Q29 and two
\* more, 29 slots match exactly and the slot Q30 partially: it contains Q3
C30_Witness ==
    /\ pc = "overall"
    /\ Len(template_row6) = TemplateCapacity + 2
    /\ Len(question_cols) = TemplateCapacity + 1
    /\ match_info.template_question_count = TemplateCapacity
    /\ match_info.exact_matches = TemplateCapacity - 1
    /\ match_info.partial_matches = 1
    /\ match_info.partial_match_details[1].column = LastQuestionColumn
    /\ match_info.unmapped_questions = <<>>

----------------------------------------------------------------------------
\* Claims on the integrated workbook.

\* C28: the averages create_integrated_excel writes, the summary value of
\* the overall sheet and the value of the header row of every group and of
\* every label, are get_overall_average of the rows and the questions the
\* row is about, rounded to two decimals as the cell is.
C28_AveragesAreUnionWeighted ==
    pc = "integrated" =>
        \A w \in rows_written :
            ws[<<w.sheet, w.row, ValueColumn>>]
               = NumCell(Round2(get_overall_average(w.subset, question_cols)))

----------------------------------------------------------------------------
\* Claims on the free comments.

\* the text without the whitespace at its ends
Trimmed(t) ==
    LET black == {i \in DOMAIN t : t[i] \notin WhiteSpace}
    IN  IF black = {} THEN <<>>
        ELSE SubSeq(t, CHOOSE i \in black : \A j \in black : i <= j,
                       CHOOSE i \in black : \A j \in black : i >= j)

\* the rows whose comment is kept: not missing, and not an excluded phrase
\* once trimmed
KeptRows ==
    {i \in DOMAIN df.rows :
        /\ df.rows[i][free_text_col].kind = "str"
        /\ Trimmed(df.rows[i][free_text_col].s) \notin exclude_patterns}

\* C25: extract_free_comments returns the empty list when the column name
\* is empty or no column of the table; with exclude_empty the trimmed text
\* of every cell that is not missing and whose trimmed text is none of the
\* excluded phrases, in the order of the rows; without exclude_empty the
\* cells of the column as they are.
C25_CommentsKept ==
    pc = "extracted" =>
        IF free_text_col = <<>> \/ free_text_col \notin Range(df.columns)
        THEN comments = <<>>
        ELSE IF ~ exclude_empty
        THEN comments = [i \in DOMAIN df.rows |-> df.rows[i][free_text_col]]
        ELSE /\ Len(comments) = Cardinality(KeptRows)
             /\ \A i \in KeptRows :
                   comments[Cardinality({k \in KeptRows : k <= i})]
                      = StrCell(Trimmed(df.rows[i][free_text_col].s))
             /\ df = SampleComments =>
                   comments = <<StrCell(Omoshiroi), StrCell(KaizentenNashi),
                                StrCell(Tanoshikatta)>>

\* an excluded phrase between spaces is left out, a comment between spaces
\* is returned trimmed
C25_Witness ==
    /\ pc = "extracted"
    /\ exclude_empty
    /\ NRows(df) = 2
    /\ df.rows[1][FreeTextHeader] = StrCell(<<" ", "Na", "shi", "\t">>)
    /\ df.rows[2][FreeTextHeader]
          = StrCell(<<" ">> \o Omoshiroi \o <<" ", " ">>)
    /\ comments = <<StrCell(Omoshiroi)>>

----------------------------------------------------------------------------
\* Claims on the application.

\* C26: the assignment the application builds has lists without a common
\* label: a label selected for a category is offered to no later category
\* and is in no later default selection, whatever was selected in the runs
\* before.
C26_DisjointLists ==
    /\ \A i, j \in DOMAIN subject_mapping :
          i < j => Range(subject_mapping[i][2])
                      \cap Range(subject_mapping[j][2]) = {}
    /\ pc = "widgets" /\ subject_i <= Len(template_subjects) =>
          \A i \in DOMAIN subject_mapping :
              Range(subject_mapping[i][2])
                 \cap (Range(available_for_this(subject_i))
                       \cup Range(default_selected(subject_i))) = {}

\* a run after a run in which suugaku I was selected for chireki-koumin:
\* now it is selected for kokugo, and suugaku has suugaku A only
C26_Witness ==
    /\ pc = "widgets"
    /\ subject_i = 3
    /\ subject_mapping = << <<Kokugo, <<SuugakuI>>>>, <<Suugaku, <<SuugakuA>>>> >>
    /\ ChirekiKoumin \in DOMAIN session_state
    /\ session_state[ChirekiKoumin] = <<SuugakuI>>
    /\ available_for_this(subject_i) = <<>>

\* the number of rows of the files before file k
RowsBefore(k) == SumSeq([j \in 1..(k - 1) |-> NRows(uploaded_files[j])])

\* C29: the table is the rows of the uploaded files one after the other,
\* in the order of the upload and with no row dropped, and the question
\* list handed on is the question list of this joined table: every
\* question header of every file is in it.
C29_QuestionsOfAllFiles ==
    pc \in {"widgets", "rendered", "download"} =>
        /\ NRows(df) = RowsBefore(Len(uploaded_files) + 1)
        /\ \A k \in DOMAIN uploaded_files :
              \A i \in DOMAIN uploaded_files[k].rows :
                  \A c \in Range(uploaded_files[k].columns) :
                      df.rows[RowsBefore(k) + i][c] = uploaded_files[k].rows[i][c]
        /\ question_cols = identify_question_columns(df)
        /\ \A k \in DOMAIN all_metadata :
              Range(all_metadata[k].question_columns) \subseteq Range(question_cols)

====
